---- MODULE Spec2Model ----
(***************************************************************************)
(* Sprite Sprout: grid recovery and palette reduction engine.              *)
(*                                                                         *)
(* A pixel buffer (Uint8ClampedArray, 4 bytes per pixel) is modelled as a  *)
(* sequence of pixels <<r, g, b, a>>.  Every exported function of the      *)
(* engine is a call: Init draws its arguments, the actions run its phases. *)
(***************************************************************************)
EXTENDS Integers, Sequences, FiniteSets, TLC

VARIABLES
    fn,             \* the exported function being called
    pc,             \* position inside the call
    data,           \* source RGBA buffer (argument)
    width,          \* argument
    height,         \* argument
    targetColors,   \* argument of the quantizers
    initialPalette, \* argument of refineWithKMeans, palette of remapToPalette
    maxIterations,  \* argument of refineWithKMeans
    gridSize,       \* argument of snapToGrid
    indexA,         \* argument of mergePaletteColors
    indexB,         \* argument of mergePaletteColors
    uniqueColors,   \* argument of suggestColorCount
    tree,           \* octree: node path |-> OctreeNode (root is the empty path)
    leafCount,      \* octree: the leafCount counter
    exitB,          \* octree: how the Phase B loop was left
    buckets,        \* median cut: the buckets
    effectiveTarget,\* median cut: min(targetColors, uniqueCount)
    iter,           \* k-means: the loop counter
    assignments,    \* k-means: Uint8Array of cluster assignments
    snapData,       \* SnapResult.data
    snapWidth,      \* SnapResult.width
    snapHeight,     \* SnapResult.height
    snapAlloc,      \* the allocation that SnapResult.data refers to
    detection,      \* GridDetectionResult
    mergedAlloc,    \* the entry arrays that the merged palette refers to
    cleanup,        \* CleanupResult: the colour counts, reduced or not
    history,        \* HistoryManager: entries and currentIndex
    returned,       \* what the last undo() or redo() returned
    canvas,         \* EditorStore.canvas
    calls,          \* the number of push calls made so far
    palette,        \* result palette
    indexedData,    \* result Uint8Array
    remappedData    \* result RGBA buffer

\* the arguments of the call
callVars ==
    <<fn, data, width, height, targetColors, initialPalette, maxIterations,
      gridSize, indexA, indexB, uniqueColors>>

octVars == <<tree, leafCount, exitB>>

medVars == <<buckets, effectiveTarget>>

refVars == <<iter, assignments>>

\* the returned SnapResult
snapVars == <<snapData, snapWidth, snapHeight, snapAlloc>>

\* the returned QuantizeResult
outVars == <<palette, indexedData, remappedData>>

\* the returned GridDetectionResult
detVars == <<detection>>

\* what mergePaletteColors and autoClean return besides
lateVars == <<mergedAlloc, cleanup>>

\* the HistoryManager and the EditorStore that owns it
histVars == <<history, returned, canvas, calls>>

\* what a call of one function leaves alone: the state of the others
notOct == <<medVars, refVars, snapVars, detVars, lateVars, histVars>>

notMed == <<octVars, refVars, snapVars, detVars, lateVars, histVars>>

notRef == <<octVars, medVars, snapVars, detVars, lateVars, histVars>>

notSnap == <<octVars, medVars, refVars, outVars, detVars, lateVars, histVars>>

notDet == <<octVars, medVars, refVars, snapVars, outVars, lateVars, histVars>>


vars ==
    <<pc, callVars, octVars, medVars, refVars, snapVars, outVars, detVars,
      lateVars, histVars>>

-----------------------------------------------------------------------------
(* Bounds of the model *)

MaxPixels == 4

MaxTarget == 3

-----------------------------------------------------------------------------
(* Generic helpers *)

\* Math.round(a / n) for a >= 0, n > 0 (halves round up)
RoundDiv(a, n) == (2 * a + n) \div (2 * n)

\* a store into a Uint8Array element
ToUint8(x) == x % 256

Pow2(n) == IF n = 0 THEN 1 ELSE IF n = 1 THEN 2 ELSE IF n = 2 THEN 4
           ELSE IF n = 3 THEN 8 ELSE IF n = 4 THEN 16 ELSE IF n = 5 THEN 32
           ELSE IF n = 6 THEN 64 ELSE 128

\* (v >> bit) & 1
BitOf(v, bit) == (v \div Pow2(bit)) % 2

\* F applied to the value of x: x is computed once, as a statement of the
\* source computes the value it assigns
Eval(x, F(_)) == CHOOSE y \in {F(v) : v \in {x}} : TRUE

Range(s) == {s[i] : i \in DOMAIN s}

SeqsUpTo(S, n) == UNION {[1..k -> S] : k \in 1..n}

\* new Uint8ClampedArray(n) / new Uint8Array(n): zero filled
ZeroPixels(n) == [p \in 1..n |-> <<0, 0, 0, 0>>]

\* an index array of data.length elements in place of pixelCount
ZeroIndexPerByte(n) == [p \in 1..(4 * n) |-> 0]

ZeroIndex(n) == [p \in 1..n |-> 0]

Opaque(px) == px[4] # 0

RGBOf(px) == <<px[1], px[2], px[3]>>

DistinctOpaque(d) == {RGBOf(d[p]) : p \in {q \in DOMAIN d : Opaque(d[q])}}

-----------------------------------------------------------------------------
(* Octree quantizer                                                        *)

OctreeLevels == 7

createNode(depth) ==
    [rSum |-> 0, gSum |-> 0, bSum |-> 0, pixelCount |-> 0,
     paletteIndex |-> -1, isLeaf |-> FALSE]

childIndex(r, g, b, depth) ==
    LET bit == 7 - depth
    IN  BitOf(r, bit) * 4 + BitOf(g, bit) * 2 + BitOf(b, bit)

\* node.children[i] !== null
HasChild(t, node, i) == Append(node, i) \in DOMAIN t

\* the nodes of the subtree below and including node
Subtree(t, node) ==
    {m \in DOMAIN t : Len(m) >= Len(node) /\ SubSeq(m, 1, Len(node)) = node}

\* node.children[i] = null : the subtree is no longer reachable from the root
Detach(t, child) == [m \in DOMAIN t \ Subtree(t, child) |-> t[m]]

RECURSIVE countPaletteEntriesFrom(_, _, _)
countPaletteEntries(t, node) ==
    IF t[node].isLeaf
    THEN IF t[node].pixelCount > 0 THEN 1 ELSE 0
    ELSE (IF t[node].pixelCount > 0 THEN 1 ELSE 0)
         + countPaletteEntriesFrom(t, node, 0)

countPaletteEntriesFrom(t, node, i) ==
    IF i > 7 THEN 0
    ELSE (IF HasChild(t, node, i)
          THEN countPaletteEntries(t, Append(node, i)) ELSE 0)
         + countPaletteEntriesFrom(t, node, i + 1)

RECURSIVE countLeavesFrom(_, _, _)
countLeaves(t, node) ==
    IF t[node].isLeaf THEN 1 ELSE countLeavesFrom(t, node, 0)

countLeavesFrom(t, node, i) ==
    IF i > 7 THEN 0
    ELSE (IF HasChild(t, node, i)
          THEN countLeaves(t, Append(node, i)) ELSE 0)
         + countLeavesFrom(t, node, i + 1)

\* target.rSum += src.rSum; ... ; target.pixelCount += src.pixelCount
AddInto(t, target, src) ==
    [t EXCEPT ![target].rSum = @ + t[src].rSum,
              ![target].gSum = @ + t[src].gSum,
              ![target].bSum = @ + t[src].bSum,
              ![target].pixelCount = @ + t[src].pixelCount]

RECURSIVE collapseFrom(_, _, _)
collapseIntoSelf(t, node) ==
    Eval(collapseFrom(t, node, 0),
         LAMBDA t1 : [t1 EXCEPT ![node].isLeaf = TRUE])

collapseFrom(t, node, i) ==
    IF i > 7 THEN t
    ELSE IF ~HasChild(t, node, i) THEN collapseFrom(t, node, i + 1)
    ELSE Eval(Append(node, i), LAMBDA child :
         Eval(IF ~t[child].isLeaf THEN collapseIntoSelf(t, child) ELSE t,
              LAMBDA t1 :
         Eval(Detach(AddInto(t1, node, child), child), LAMBDA t2 :
              collapseFrom(t2, node, i + 1))))

RECURSIVE gatherFrom(_, _, _, _)
gather(t, target, node) ==
    Eval(AddInto(t, target, node), LAMBDA t1 : gatherFrom(t1, target, node, 0))

gatherFrom(t, target, node, i) ==
    IF i > 7 THEN t
    ELSE IF ~HasChild(t, node, i) THEN gatherFrom(t, target, node, i + 1)
    ELSE Eval(gather(t, target, Append(node, i)), LAMBDA t1 :
              gatherFrom(t1, target, node, i + 1))

\* returns the tree after absorption and the number of leaves absorbed
absorbChild(t, target, childIdx) ==
    IF ~HasChild(t, target, childIdx)
    THEN [tree |-> t, leaves |-> 0]
    ELSE LET child == Append(target, childIdx)
         IN  [tree |-> Detach(gather(t, target, child), child),
              leaves |-> countLeaves(t, child)]

\* the octree state threaded through the phases
OctState(t, lc) == [tree |-> t, leafCount |-> lc]

EmptyOctree == OctState(<<>> :> createNode(0), 0)

RECURSIVE insertWalk(_, _, _, _, _, _)
\* the for loop of insertColor from level depth on, then the accumulation
insertWalk(st, node, depth, r, g, b) ==
    IF depth >= OctreeLevels
    THEN OctState([st.tree EXCEPT ![node].rSum = @ + r,
                                  ![node].gSum = @ + g,
                                  ![node].bSum = @ + b,
                                  ![node].pixelCount = @ + 1],
                  st.leafCount)
    ELSE Eval(Append(node, childIndex(r, g, b, depth)), LAMBDA child :
         Eval(IF child \in DOMAIN st.tree THEN st
              ELSE OctState(
                       st.tree @@ (child :>
                           [createNode(depth + 1) EXCEPT
                               !.isLeaf = (depth + 1 = OctreeLevels)]),
                       IF depth + 1 = OctreeLevels
                       THEN st.leafCount + 1 ELSE st.leafCount),
              LAMBDA st1 : insertWalk(st1, child, depth + 1, r, g, b)))

insertColor(st, r, g, b) == insertWalk(st, <<>>, 0, r, g, b)

RECURSIVE insertEveryPixel(_, _, _)
\* the insert loop without `if (data[i + 3] === 0) continue`
insertEveryPixel(st, d, p) ==
    IF p > Len(d) THEN st
    ELSE Eval(insertColor(st, d[p][1], d[p][2], d[p][3]),
              LAMBDA st1 : insertEveryPixel(st1, d, p + 1))

RECURSIVE insertPixels(_, _, _)
\* Step 1: insert all opaque pixels
insertPixels(st, d, p) ==
    IF p > Len(d) THEN st
    ELSE Eval(IF d[p][4] = 0 THEN st
              ELSE insertColor(st, d[p][1], d[p][2], d[p][3]),
              LAMBDA st1 : insertPixels(st1, d, p + 1))

EmptyInteriors == [dep \in 0..7 |-> <<>>]

RECURSIVE collectInteriorsFrom(_, _, _, _)
collectInteriors(t, node, acc) ==
    IF t[node].isLeaf THEN acc
    ELSE Eval(collectInteriorsFrom(t, node, 0, acc), LAMBDA a1 :
              [a1 EXCEPT ![Len(node)] = Append(@, node)])

collectInteriorsFrom(t, node, i, acc) ==
    IF i > 7 THEN acc
    ELSE IF ~HasChild(t, node, i)
         THEN collectInteriorsFrom(t, node, i + 1, acc)
         ELSE Eval(collectInteriors(t, Append(node, i), acc), LAMBDA a1 :
                   collectInteriorsFrom(t, node, i + 1, a1))

RECURSIVE InsertSorted(_, _, _, _)
\* place node x behind every element whose key is <= the key of x
InsertSorted(t, sorted, x, i) ==
    IF i > Len(sorted) THEN Append(sorted, x)
    ELSE IF countLeaves(t, sorted[i]) <= countLeaves(t, x)
         THEN InsertSorted(t, sorted, x, i + 1)
         ELSE SubSeq(sorted, 1, i - 1) \o <<x>> \o SubSeq(sorted, i, Len(sorted))

RECURSIVE SortFrom(_, _, _, _)
SortFrom(t, nodes, i, sorted) ==
    IF i > Len(nodes) THEN sorted
    ELSE Eval(InsertSorted(t, sorted, nodes[i], 1), LAMBDA s1 :
              SortFrom(t, nodes, i + 1, s1))

\* nodes.sort((a, b) => countLeaves(a) - countLeaves(b)), a stable sort
SortByLeaves(t, nodes) == SortFrom(t, nodes, 1, <<>>)

RECURSIVE visitNodes(_, _, _, _)
\* the inner for loop of Phase A over the sorted nodes of one depth
visitNodes(st, nodes, i, K) ==
    IF i > Len(nodes) THEN st
    ELSE IF st.tree[nodes[i]].isLeaf THEN visitNodes(st, nodes, i + 1, K)
    ELSE IF st.leafCount <= K THEN st
    ELSE Eval(countLeaves(st.tree, nodes[i]) - 1, LAMBDA reduction :
         IF reduction <= 0 THEN visitNodes(st, nodes, i + 1, K)
         ELSE IF st.leafCount - reduction >= K
              THEN Eval(OctState(collapseIntoSelf(st.tree, nodes[i]),
                                 st.leafCount - reduction),
                        LAMBDA st1 : visitNodes(st1, nodes, i + 1, K))
              ELSE visitNodes(st, nodes, i + 1, K))

RECURSIVE reduceLevels(_, _, _, _)
\* the outer loop of Phase A: depth 6 down to 0 while leafCount > targetColors
reduceLevels(st, interiors, depth, K) ==
    IF depth < 0 \/ st.leafCount <= K THEN st
    ELSE Eval(SortByLeaves(st.tree, interiors[depth]), LAMBDA nodes :
         Eval(visitNodes(st, nodes, 1, K), LAMBDA st1 :
              reduceLevels(st1, interiors, depth - 1, K)))

phaseA(st, K) ==
    Eval(collectInteriors(st.tree, <<>>, EmptyInteriors), LAMBDA interiors :
         reduceLevels(st, interiors, 6, K))

\* bestNode: some = FALSE stands for null
NoNode == [some |-> FALSE, node |-> <<>>]

RECURSIVE findBestFrom(_, _, _, _, _)
findBest(t, node, best) ==
    IF t[node].isLeaf THEN best
    ELSE Eval(findBestFrom(t, node, 0, 0, best), LAMBDA r :
              IF r.childCount >= 2
                 /\ (~r.best.some \/ Len(node) < Len(r.best.node))
              THEN [some |-> TRUE, node |-> node] ELSE r.best)

findBestFrom(t, node, i, childCount, best) ==
    IF i > 7 THEN [childCount |-> childCount, best |-> best]
    ELSE IF ~HasChild(t, node, i)
         THEN findBestFrom(t, node, i + 1, childCount, best)
         ELSE Eval(findBest(t, Append(node, i), best), LAMBDA b1 :
                   findBestFrom(t, node, i + 1, childCount + 1, b1))

RECURSIVE minLeavesChild(_, _, _, _, _)
\* the child with the fewest leaves (first one on ties), -1 when there is none
minLeavesChild(t, target, i, minLeaves, minIdx) ==
    IF i > 7 THEN minIdx
    ELSE IF ~HasChild(t, target, i)
         THEN minLeavesChild(t, target, i + 1, minLeaves, minIdx)
         ELSE Eval(countLeaves(t, Append(target, i)), LAMBDA cl :
                   IF minIdx = -1 \/ cl < minLeaves
                   THEN minLeavesChild(t, target, i + 1, cl, i)
                   ELSE minLeavesChild(t, target, i + 1, minLeaves, minIdx))

remainingChildren(t, node) == Cardinality({i \in 0..7 : HasChild(t, node, i)})

\* afterAbsorb without the recount of countPaletteEntries: the loop is steered
\* by leafCount alone, which misses the interior nodes that hold pixels
afterAbsorbNoRecount(ab, lc, bestNode, K) ==
    LET none == remainingChildren(ab.tree, bestNode) = 0
    IN  [tree |-> IF none THEN [ab.tree EXCEPT ![bestNode].isLeaf = TRUE]
                  ELSE ab.tree,
         leafCount |-> IF none THEN lc - ab.leaves + 1 ELSE lc - ab.leaves,
         exit |-> ""]

\* what follows absorbChild in the loop body
afterAbsorb(ab, lc, bestNode, K) ==
    LET lc1 == lc - ab.leaves
        none == remainingChildren(ab.tree, bestNode) = 0
    IN  Eval(IF none THEN [ab.tree EXCEPT ![bestNode].isLeaf = TRUE]
             ELSE ab.tree, LAMBDA t2 :
        Eval(countPaletteEntries(t2, <<>>), LAMBDA effectiveCount :
             IF effectiveCount <= K
             THEN [tree |-> t2,
                   leafCount |-> IF none THEN lc1 + 1 ELSE lc1,
                   exit |-> "effective"]
             ELSE [tree |-> t2, leafCount |-> effectiveCount, exit |-> ""]))

\* one pass through the body of the Phase B while loop (leafCount > K holds);
\* exit is "" when the loop goes round again
phaseBStep(st, K) ==
    Eval(findBest(st.tree, <<>>, NoNode), LAMBDA found :
         IF ~found.some
         THEN [tree |-> st.tree, leafCount |-> st.leafCount, exit |-> "noBest"]
         ELSE Eval(minLeavesChild(st.tree, found.node, 0, 0, -1),
                   LAMBDA minIdx :
              IF minIdx = -1
              THEN [tree |-> st.tree, leafCount |-> st.leafCount,
                    exit |-> "noChild"]
              ELSE Eval(absorbChild(st.tree, found.node, minIdx), LAMBDA ab :
                        afterAbsorb(ab, st.leafCount, found.node, K))))

RECURSIVE phaseB(_, _)
phaseB(st, K) ==
    IF st.leafCount <= K THEN st
    ELSE Eval(phaseBStep(st, K), LAMBDA r :
              IF r.exit # "" THEN OctState(r.tree, r.leafCount)
              ELSE phaseB(OctState(r.tree, r.leafCount), K))

\* palette.push([round(rSum / n), round(gSum / n), round(bSum / n), 255])
nodeColor(n) ==
    <<RoundDiv(n.rSum, n.pixelCount), RoundDiv(n.gSum, n.pixelCount),
      RoundDiv(n.bSum, n.pixelCount), 255>>

RECURSIVE assignLeafIndices(_, _)
RECURSIVE assignLeafIndicesFrom(_, _, _)
\* assignPaletteIndices of a classic octree: only leaves get a palette entry
assignLeafIndices(ap, node) ==
    IF ap.tree[node].isLeaf
    THEN (IF ap.tree[node].pixelCount > 0
          THEN [tree |-> [ap.tree EXCEPT
                             ![node].paletteIndex = Len(ap.palette)],
                palette |-> Append(ap.palette, nodeColor(ap.tree[node]))]
          ELSE ap)
    ELSE assignLeafIndicesFrom(ap, node, 0)

assignLeafIndicesFrom(ap, node, i) ==
    IF i > 7 THEN ap
    ELSE IF ~HasChild(ap.tree, node, i)
         THEN assignLeafIndicesFrom(ap, node, i + 1)
         ELSE Eval(assignLeafIndices(ap, Append(node, i)), LAMBDA ap1 :
                   assignLeafIndicesFrom(ap1, node, i + 1))

RECURSIVE assignPaletteIndicesFrom(_, _, _)
\* ap = [tree, palette]; the palette is 1-based here, paletteIndex is 0-based
assignPaletteIndices(ap, node) ==
    Eval(IF ap.tree[node].pixelCount > 0
         THEN [tree |-> [ap.tree EXCEPT
                            ![node].paletteIndex = Len(ap.palette)],
               palette |-> Append(ap.palette, nodeColor(ap.tree[node]))]
         ELSE ap, LAMBDA ap1 :
         IF ap1.tree[node].isLeaf THEN ap1
         ELSE assignPaletteIndicesFrom(ap1, node, 0))

assignPaletteIndicesFrom(ap, node, i) ==
    IF i > 7 THEN ap
    ELSE IF ~HasChild(ap.tree, node, i)
         THEN assignPaletteIndicesFrom(ap, node, i + 1)
         ELSE Eval(assignPaletteIndices(ap, Append(node, i)), LAMBDA ap1 :
                   assignPaletteIndicesFrom(ap1, node, i + 1))

RECURSIVE walk(_, _, _, _, _, _)
\* Step 4: follow the bit path, stop at a leaf or at a pruned child
walk(t, node, depth, r, g, b) ==
    IF depth >= OctreeLevels \/ t[node].isLeaf THEN node
    ELSE IF ~HasChild(t, node, childIndex(r, g, b, depth)) THEN node
    ELSE Eval(Append(node, childIndex(r, g, b, depth)), LAMBDA child :
              walk(t, child, depth + 1, r, g, b))

\* node.paletteIndex of the node the walk of pixel px ends at
walkIndex(t, px) == t[walk(t, <<>>, 0, px[1], px[2], px[3])].paletteIndex

\* Step 4: indexedData and remappedData; threw stands for the TypeError of
\* reading palette[-1][0]
octMap(t, pal, d, pixelCount) ==
    LET pi(p) == walkIndex(t, d[p])
        bad == \E p \in 1..pixelCount :
                   d[p][4] # 0 /\ (pi(p) < 0 \/ pi(p) >= Len(pal))
    IN  [threw |-> bad,
         indexedData |->
             [p \in 1..pixelCount |->
                 IF d[p][4] = 0 THEN 0 ELSE ToUint8(pi(p))],
         remappedData |->
             IF bad THEN <<>>
             ELSE [p \in 1..pixelCount |->
                     IF d[p][4] = 0 THEN <<0, 0, 0, 0>>
                     ELSE <<pal[pi(p) + 1][1], pal[pi(p) + 1][2],
                            pal[pi(p) + 1][3], 255>>]]

EmptyResult(pixelCount) ==
    [palette |-> <<>>, indexedData |-> ZeroIndex(pixelCount),
     remappedData |-> ZeroPixels(pixelCount), threw |-> FALSE]

\* the whole call, as the composition of its phases
octreeQuantize(d, w, h, K) ==
    IF K <= 0 THEN EmptyResult(w * h)
    ELSE Eval(insertPixels(EmptyOctree, d, 1), LAMBDA st0 :
         Eval(phaseA(st0, K), LAMBDA st1 :
         Eval(phaseB(st1, K), LAMBDA st2 :
         Eval(assignPaletteIndices([tree |-> st2.tree, palette |-> <<>>],
                                   <<>>), LAMBDA ap :
         Eval(octMap(ap.tree, ap.palette, d, w * h), LAMBDA m :
              [palette |-> ap.palette, indexedData |-> m.indexedData,
               remappedData |-> m.remappedData, threw |-> m.threw])))))


-----------------------------------------------------------------------------
(* Median-cut quantizer                                                    *)

\* (r << 16) | (g << 8) | b
PackRGB(r, g, b) == r * 65536 + g * 256 + b

\* a ColorEntry from a key of the histogram: (key >> 16) & 0xff, ...
entryOf(key, count) ==
    [r |-> (key \div 65536) % 256, g |-> (key \div 256) % 256,
     b |-> key % 256, count |-> count]

\* colorMap.set(key, (colorMap.get(key) ?? 0) + 1); a Map keeps the order in
\* which its keys were first set
mapIncrement(m, key) ==
    IF \E i \in DOMAIN m : m[i][1] = key
    THEN [i \in DOMAIN m |->
             IF m[i][1] = key THEN <<key, m[i][2] + 1>> ELSE m[i]]
    ELSE Append(m, <<key, 1>>)

RECURSIVE buildColorMap(_, _, _)
\* Step 1: histogram of the opaque colours
buildColorMap(m, d, p) ==
    IF p > Len(d) THEN m
    ELSE Eval(IF d[p][4] = 0 THEN m
              ELSE mapIncrement(m, PackRGB(d[p][1], d[p][2], d[p][3])),
              LAMBDA m1 : buildColorMap(m1, d, p + 1))

allEntriesOf(d) ==
    Eval(buildColorMap(<<>>, d, 1), LAMBDA m :
         [i \in DOMAIN m |-> entryOf(m[i][1], m[i][2])])

MinOf(S) == CHOOSE x \in S : \A y \in S : x <= y

MaxOf(S) == CHOOSE x \in S : \A y \in S : x >= y

computeBounds(entries) ==
    [rMin |-> MinOf({255} \cup {entries[i].r : i \in DOMAIN entries}),
     rMax |-> MaxOf({0} \cup {entries[i].r : i \in DOMAIN entries}),
     gMin |-> MinOf({255} \cup {entries[i].g : i \in DOMAIN entries}),
     gMax |-> MaxOf({0} \cup {entries[i].g : i \in DOMAIN entries}),
     bMin |-> MinOf({255} \cup {entries[i].b : i \in DOMAIN entries}),
     bMax |-> MaxOf({0} \cup {entries[i].b : i \in DOMAIN entries})]

RECURSIVE populationFrom(_, _)
populationFrom(entries, i) ==
    IF i > Len(entries) THEN 0
    ELSE entries[i].count + populationFrom(entries, i + 1)

makeBucket(entries) ==
    [entries |-> entries, population |-> populationFrom(entries, 1)]
        @@ computeBounds(entries)

bucketVolume(b) ==
    (b.rMax - b.rMin + 1) * (b.gMax - b.gMin + 1) * (b.bMax - b.bMin + 1)

RECURSIVE pickBucketOver2(_, _, _, _)
\* pickBucket with `entries.length <= 2` as the test for an unsplittable bucket
pickBucketOver2(bs, i, bestIdx, bestScore) ==
    IF i > Len(bs) THEN bestIdx
    ELSE IF Len(bs[i].entries) <= 2
         THEN pickBucketOver2(bs, i + 1, bestIdx, bestScore)
    ELSE IF bs[i].population * bucketVolume(bs[i]) > bestScore
         THEN pickBucketOver2(bs, i + 1, i,
                              bs[i].population * bucketVolume(bs[i]))
         ELSE pickBucketOver2(bs, i + 1, bestIdx, bestScore)

RECURSIVE pickBucket(_, _, _, _)
\* index (1-based) of the splittable bucket with the largest score, first one
\* on ties; 0 stands for bestIdx = -1
pickBucket(bs, i, bestIdx, bestScore) ==
    IF i > Len(bs) THEN bestIdx
    ELSE IF Len(bs[i].entries) < 2 THEN pickBucket(bs, i + 1, bestIdx, bestScore)
    ELSE IF bs[i].population * bucketVolume(bs[i]) > bestScore
         THEN pickBucket(bs, i + 1, i, bs[i].population * bucketVolume(bs[i]))
         ELSE pickBucket(bs, i + 1, bestIdx, bestScore)

sortChannelOf(bucket) ==
    LET rRange == bucket.rMax - bucket.rMin
        gRange == bucket.gMax - bucket.gMin
        bRange == bucket.bMax - bucket.bMin
    IN  IF rRange >= gRange /\ rRange >= bRange THEN "r"
        ELSE IF gRange >= bRange THEN "g" ELSE "b"

channelValue(e, ch) == IF ch = "r" THEN e.r ELSE IF ch = "g" THEN e.g ELSE e.b

RECURSIVE insertEntry(_, _, _, _)
insertEntry(sorted, x, ch, i) ==
    IF i > Len(sorted) THEN Append(sorted, x)
    ELSE IF channelValue(sorted[i], ch) <= channelValue(x, ch)
         THEN insertEntry(sorted, x, ch, i + 1)
         ELSE SubSeq(sorted, 1, i - 1) \o <<x>> \o SubSeq(sorted, i, Len(sorted))

RECURSIVE sortEntriesFrom(_, _, _, _)
sortEntriesFrom(entries, ch, i, sorted) ==
    IF i > Len(entries) THEN sorted
    ELSE Eval(insertEntry(sorted, entries[i], ch, 1), LAMBDA s1 :
              sortEntriesFrom(entries, ch, i + 1, s1))

\* bucket.entries.sort((a, b) => a[sortChannel] - b[sortChannel]), stable
sortEntries(entries, ch) == sortEntriesFrom(entries, ch, 1, <<>>)

RECURSIVE splitScan(_, _, _, _)
\* the weighted median loop: i runs over 0 .. length - 2 (here 1 .. n - 1);
\* the result is splitIdx, 0 when the loop never breaks
splitScan(entries, population, i, cumulative) ==
    IF i > Len(entries) - 1 THEN 0
    ELSE IF 2 * (cumulative + entries[i].count) >= population THEN i
         ELSE splitScan(entries, population, i + 1,
                        cumulative + entries[i].count)

\* cumulative >= population / 2, compared without the division
splitIndexOf(entries, population) ==
    Eval(splitScan(entries, population, 1, 0), LAMBDA splitIdx :
         IF splitIdx = 0 THEN 1 ELSE splitIdx)

\* one pass through the body of the split loop, bestIdx found
splitBucket(bs, bestIdx) ==
    Eval(sortEntries(bs[bestIdx].entries, sortChannelOf(bs[bestIdx])),
         LAMBDA sorted :
    Eval(splitIndexOf(sorted, bs[bestIdx].population), LAMBDA splitIdx :
         Append([bs EXCEPT ![bestIdx] =
                     makeBucket(SubSeq(sorted, 1, splitIdx))],
                makeBucket(SubSeq(sorted, splitIdx + 1, Len(sorted))))))

RECURSIVE splitLoop(_, _)
splitLoop(bs, target) ==
    IF Len(bs) >= target THEN bs
    ELSE Eval(pickBucket(bs, 1, 0, -1), LAMBDA bestIdx :
              IF bestIdx = 0 THEN bs
              ELSE Eval(splitBucket(bs, bestIdx), LAMBDA bs1 :
                        splitLoop(bs1, target)))

RECURSIVE weightedSum(_, _, _)
weightedSum(entries, ch, j) ==
    IF j > Len(entries) THEN 0
    ELSE channelValue(entries[j], ch) * entries[j].count
         + weightedSum(entries, ch, j + 1)

\* Step 4: the population-weighted mean of each bucket
bucketColor(b) ==
    Eval(populationFrom(b.entries, 1), LAMBDA totalCount :
         <<RoundDiv(weightedSum(b.entries, "r", 1), totalCount),
           RoundDiv(weightedSum(b.entries, "g", 1), totalCount),
           RoundDiv(weightedSum(b.entries, "b", 1), totalCount), 255>>)

paletteOfBuckets(bs) == [i \in DOMAIN bs |-> bucketColor(bs[i])]

sqDist(r, g, b, c) ==
    (r - c[1]) * (r - c[1]) + (g - c[2]) * (g - c[2]) + (b - c[3]) * (b - c[3])

RECURSIVE nearestRGBFrom(_, _, _, _, _, _, _)
\* linear scan, bestDist = Infinity at the start (bestPi 0-based)
nearestRGBFrom(pal, r, g, b, pi, bestPi, bestDist) ==
    IF pi >= Len(pal) THEN bestPi
    ELSE IF bestDist = -1 \/ sqDist(r, g, b, pal[pi + 1]) < bestDist
         THEN nearestRGBFrom(pal, r, g, b, pi + 1, pi,
                             sqDist(r, g, b, pal[pi + 1]))
         ELSE nearestRGBFrom(pal, r, g, b, pi + 1, bestPi, bestDist)

nearestRGB(pal, px) == nearestRGBFrom(pal, px[1], px[2], px[3], 0, 0, -1)

\* Step 5: indexedData and remappedData
medMap(pal, d, pixelCount) ==
    [indexedData |->
         [p \in 1..pixelCount |->
             IF d[p][4] = 0 THEN 0 ELSE ToUint8(nearestRGB(pal, d[p]))],
     remappedData |->
         [p \in 1..pixelCount |->
             IF d[p][4] = 0 THEN <<0, 0, 0, 0>>
             ELSE Eval(pal[nearestRGB(pal, d[p]) + 1], LAMBDA color :
                       <<color[1], color[2], color[3], 255>>)]]

MinInt(a, b) == IF a <= b THEN a ELSE b

\* the whole call
medianCutQuantize(d, w, h, K) ==
    IF K <= 0 THEN EmptyResult(w * h)
    ELSE Eval(allEntriesOf(d), LAMBDA allEntries :
         IF Len(allEntries) = 0 THEN EmptyResult(w * h)
         ELSE Eval(splitLoop(<<makeBucket(allEntries)>>,
                             MinInt(K, Len(allEntries))), LAMBDA bs :
              Eval(paletteOfBuckets(bs), LAMBDA pal :
              Eval(medMap(pal, d, w * h), LAMBDA m :
                   [palette |-> pal, indexedData |-> m.indexedData,
                    remappedData |-> m.remappedData, threw |-> FALSE]))))

-----------------------------------------------------------------------------
(* The calls of octreeQuantize *)

\* colours that part at the root (bit 7), at the last level (bit 1) and not at
\* all (bit 0 only), one of them half transparent, and a transparent pixel
\* that carries a colour
OctPixels ==
    {<<0, 0, 0, 255>>, <<2, 0, 0, 255>>, <<3, 0, 0, 255>>,
     <<128, 0, 0, 255>>, <<0, 128, 0, 128>>, <<128, 0, 0, 0>>}

NoTree == <<>> :> createNode(0)

\* the variables of the phases that the called function does not use
OctIdle == tree = NoTree /\ leafCount = 0 /\ exitB = ""

MedIdle == buckets = <<>> /\ effectiveTarget = 0

RefIdle == iter = 0 /\ assignments = <<>>

\* the arguments that the called function does not take
NoQuantArgs == targetColors = 0

NoRefineArgs == initialPalette = <<>> /\ maxIterations = 0

NoSnapArgs == gridSize = 0

SnapIdle ==
    snapData = <<>> /\ snapWidth = 0 /\ snapHeight = 0 /\ snapAlloc = ""

NoResult == palette = <<>> /\ indexedData = <<>> /\ remappedData = <<>>

\* no detection was made
NoDetection ==
    [gridSize |-> 0, confidence |-> [num |-> 0, den |-> 1], candidates |-> <<>>,
     logicalWidth |-> 0, logicalHeight |-> 0]

DetIdle == detection = NoDetection

NoMergeArgs == indexA = 0 /\ indexB = 0

\* no cleanup was made
NoCleanup ==
    [reduced |-> FALSE, originalColorCount |-> 0, reducedColorCount |-> 0,
     targetColors |-> 0]

NoCleanArgs == uniqueColors = 0

\* null, for a HistoryEntry and for the canvas
NoEntry == [some |-> FALSE]

NoCanvas == [some |-> FALSE]

\* new HistoryManager()
NewHistory == [entries |-> <<>>, currentIndex |-> -1]

HistIdle ==
    history = NewHistory /\ returned = NoEntry /\ canvas = NoCanvas /\ calls = 0

LateIdle ==
    NoCleanArgs /\ mergedAlloc = <<>> /\ cleanup = NoCleanup /\ HistIdle

OctInit ==
    /\ fn = "octreeQuantize"
    /\ pc = "call"
    /\ data \in SeqsUpTo(OctPixels, MaxPixels)
    /\ width = Len(data)
    /\ height = 1
    /\ targetColors \in 0..MaxTarget
    /\ NoRefineArgs /\ NoSnapArgs
    /\ OctIdle /\ MedIdle /\ RefIdle /\ SnapIdle /\ NoResult /\ DetIdle
    /\ NoMergeArgs /\ LateIdle

OctEarlyReturn ==
    /\ fn = "octreeQuantize" /\ pc = "call"
    /\ targetColors <= 0
    /\ palette' = <<>>
    /\ indexedData' = ZeroIndex(width * height)
    /\ remappedData' = ZeroPixels(width * height)
    /\ pc' = "done"
    /\ UNCHANGED <<callVars, octVars, notOct>>

OctInsert ==
    /\ fn = "octreeQuantize" /\ pc = "call"
    /\ targetColors > 0
    /\ LET st == insertPixels(EmptyOctree, data, 1)
       IN  tree' = st.tree /\ leafCount' = st.leafCount
    /\ pc' = "phaseA"
    /\ UNCHANGED <<callVars, exitB, notOct, outVars>>

OctPhaseA ==
    /\ fn = "octreeQuantize" /\ pc = "phaseA"
    /\ LET st == phaseA(OctState(tree, leafCount), targetColors)
       IN  tree' = st.tree /\ leafCount' = st.leafCount
    /\ pc' = "phaseB"
    /\ UNCHANGED <<callVars, exitB, notOct, outVars>>

\* the while condition of Phase B fails
OctPhaseBSkip ==
    /\ fn = "octreeQuantize" /\ pc = "phaseB"
    /\ leafCount <= targetColors
    /\ exitB' = (IF exitB = "" THEN "notEntered" ELSE exitB)
    /\ pc' = "palette"
    /\ UNCHANGED <<callVars, tree, leafCount, notOct, outVars>>

\* one iteration of the Phase B loop
OctPhaseBStep ==
    /\ fn = "octreeQuantize" /\ pc = "phaseB"
    /\ leafCount > targetColors
    /\ LET r == phaseBStep(OctState(tree, leafCount), targetColors)
       IN  /\ tree' = r.tree
           /\ leafCount' = r.leafCount
           /\ exitB' = (IF r.exit = "" THEN "looping" ELSE r.exit)
           /\ pc' = (IF r.exit = "" THEN "phaseB" ELSE "palette")
    /\ UNCHANGED <<callVars, notOct, outVars>>

OctBuildPalette ==
    /\ fn = "octreeQuantize" /\ pc = "palette"
    /\ LET ap == assignPaletteIndices([tree |-> tree, palette |-> <<>>], <<>>)
       IN  tree' = ap.tree /\ palette' = ap.palette
    /\ pc' = "map"
    /\ UNCHANGED <<callVars, leafCount, exitB, notOct, indexedData,
                   remappedData>>

OctMapPixels ==
    /\ fn = "octreeQuantize" /\ pc = "map"
    /\ LET m == octMap(tree, palette, data, width * height)
       IN  /\ indexedData' = m.indexedData
           /\ remappedData' = m.remappedData
           /\ pc' = (IF m.threw THEN "threw" ELSE "done")
    /\ UNCHANGED <<callVars, octVars, notOct, palette>>

OctNext ==
    \/ OctEarlyReturn
    \/ OctInsert
    \/ OctPhaseA
    \/ OctPhaseBSkip
    \/ OctPhaseBStep
    \/ OctBuildPalette
    \/ OctMapPixels

SpecOctree == OctInit /\ [][OctNext]_vars

-----------------------------------------------------------------------------
(* The calls of medianCutQuantize *)

MedPixels ==
    {<<0, 0, 0, 255>>, <<10, 0, 0, 255>>, <<0, 20, 0, 255>>,
     <<200, 200, 0, 255>>, <<0, 0, 90, 128>>, <<10, 0, 0, 0>>}

MedInit ==
    /\ fn = "medianCutQuantize"
    /\ pc = "call"
    /\ data \in SeqsUpTo(MedPixels, MaxPixels)
    /\ width = Len(data)
    /\ height = 1
    /\ targetColors \in 0..MaxTarget
    /\ NoRefineArgs /\ NoSnapArgs
    /\ OctIdle /\ MedIdle /\ RefIdle /\ SnapIdle /\ NoResult /\ DetIdle
    /\ NoMergeArgs /\ LateIdle

MedEarlyReturn ==
    /\ fn = "medianCutQuantize" /\ pc = "call"
    /\ targetColors <= 0
    /\ palette' = <<>>
    /\ indexedData' = ZeroIndex(width * height)
    /\ remappedData' = ZeroPixels(width * height)
    /\ pc' = "done"
    /\ UNCHANGED <<callVars, notMed, medVars>>

\* Steps 1 and 2: the histogram, the empty return, the initial bucket
MedHistogram ==
    /\ fn = "medianCutQuantize" /\ pc = "call"
    /\ targetColors > 0
    /\ LET allEntries == allEntriesOf(data)
       IN  IF Len(allEntries) = 0
           THEN /\ palette' = <<>>
                /\ indexedData' = ZeroIndex(width * height)
                /\ remappedData' = ZeroPixels(width * height)
                /\ pc' = "done"
                /\ UNCHANGED medVars
           ELSE /\ buckets' = <<makeBucket(allEntries)>>
                /\ effectiveTarget' = MinInt(targetColors, Len(allEntries))
                /\ pc' = "split"
                /\ UNCHANGED outVars
    /\ UNCHANGED <<callVars, notMed>>

\* one iteration of the split loop, or its break
MedSplit ==
    /\ fn = "medianCutQuantize" /\ pc = "split"
    /\ Len(buckets) < effectiveTarget
    /\ LET bestIdx == pickBucket(buckets, 1, 0, -1)
       IN  IF bestIdx = 0
           THEN pc' = "palette" /\ UNCHANGED buckets
           ELSE pc' = "split" /\ buckets' = splitBucket(buckets, bestIdx)
    /\ UNCHANGED <<callVars, notMed, effectiveTarget, outVars>>

\* the while condition of the split loop fails
MedSplitDone ==
    /\ fn = "medianCutQuantize" /\ pc = "split"
    /\ Len(buckets) >= effectiveTarget
    /\ pc' = "palette"
    /\ UNCHANGED <<callVars, notMed, medVars, outVars>>

MedBuildPalette ==
    /\ fn = "medianCutQuantize" /\ pc = "palette"
    /\ palette' = paletteOfBuckets(buckets)
    /\ pc' = "map"
    /\ UNCHANGED <<callVars, notMed, medVars, indexedData, remappedData>>

MedMapPixels ==
    /\ fn = "medianCutQuantize" /\ pc = "map"
    /\ LET m == medMap(palette, data, width * height)
       IN  indexedData' = m.indexedData /\ remappedData' = m.remappedData
    /\ pc' = "done"
    /\ UNCHANGED <<callVars, notMed, medVars, palette>>

MedNext ==
    \/ MedEarlyReturn
    \/ MedHistogram
    \/ MedSplit
    \/ MedSplitDone
    \/ MedBuildPalette
    \/ MedMapPixels

SpecMedian == MedInit /\ [][MedNext]_vars

-----------------------------------------------------------------------------
(* CIELAB distance (distance.ts), for grey colours r = g = b                *)

\* MaxIter bounds the maxIterations argument, MaxPalette the palette length
MaxIter == 3

MaxPalette == 2

\* MaxRefPixels bounds the pixel count of the refined and remapped buffers
MaxRefPixels == 3

Abs(x) == IF x < 0 THEN -x ELSE x

\* L* of the grey level v = 0..255 in units of 10^-5, as rgbToLab computes it
LabL ==
    <<
       0, 27418, 54835, 82253, 109670, 137088, 164506, 191923,
       219341, 246758, 274176, 302293, 332099, 363553, 396679, 431502,
       468046, 506335, 546391, 588237, 631895, 677388, 724735, 773959,
       824819, 875701, 926324, 976694, 1026819, 1076706, 1126361, 1175792,
       1225003, 1274001, 1322791, 1371378, 1419768, 1467964, 1515972, 1563796,
       1611439, 1658907, 1706202, 1753329, 1800290, 1847091, 1893732, 1940219,
       1986553, 2032739, 2078778, 2124673, 2170428, 2216044, 2261524, 2306871,
       2352086, 2397172, 2442132, 2486967, 2531679, 2576271, 2620744, 2665100,
       2709342, 2753469, 2797486, 2841392, 2885190, 2928882, 2972468, 3015951,
       3059332, 3102612, 3145792, 3188875, 3231861, 3274751, 3317547, 3360251,
       3402862, 3445384, 3487815, 3530159, 3572415, 3614585, 3656670, 3698671,
       3740589, 3782425, 3824180, 3865854, 3907449, 3948966, 3990406, 4031768,
       4073055, 4114267, 4155405, 4196469, 4237461, 4278380, 4319229, 4360008,
       4400716, 4441356, 4481928, 4522432, 4562869, 4603240, 4643545, 4683786,
       4723962, 4764074, 4804124, 4844111, 4884035, 4923899, 4963702, 5003444,
       5043127, 5082750, 5122315, 5161822, 5201271, 5240663, 5279999, 5319278,
       5358502, 5397670, 5436784, 5475843, 5514849, 5553801, 5592700, 5631547,
       5670341, 5709084, 5747776, 5786417, 5825007, 5863547, 5902038, 5940479,
       5978871, 6017215, 6055511, 6093758, 6131959, 6170112, 6208218, 6246278,
       6284292, 6322260, 6360182, 6398060, 6435893, 6473681, 6511425, 6549125,
       6586782, 6624395, 6661965, 6699493, 6736979, 6774422, 6811823, 6849183,
       6886502, 6923780, 6961017, 6998213, 7035370, 7072486, 7109563, 7146600,
       7183599, 7220558, 7257479, 7294361, 7331205, 7368011, 7404779, 7441510,
       7478203, 7514860, 7551480, 7588063, 7624609, 7661120, 7697594, 7734033,
       7770437, 7806805, 7843138, 7879436, 7915699, 7951928, 7988122, 8024282,
       8060409, 8096501, 8132560, 8168586, 8204578, 8240538, 8276465, 8312359,
       8348220, 8384050, 8419847, 8455612, 8491345, 8527047, 8562718, 8598357,
       8633965, 8669542, 8705088, 8740604, 8776089, 8811544, 8846969, 8882364,
       8917728, 8953064, 8988369, 9023645, 9058892, 9094110, 9129299, 9164459,
       9199590, 9234693, 9269768, 9304814, 9339832, 9374822, 9409784, 9444718,
       9479625, 9514504, 9549356, 9584181, 9618979, 9653749, 9688493, 9723210,
       9757901, 9792565, 9827203, 9861814, 9896400, 9930959, 9965493, 10000000
    >>

\* for r = g = b the a* and b* of rgbToLab vanish (below 2 * 10^-5 in doubles)
rgbToLab(r, g, b) == <<LabL[r + 1], 0, 0>>

\* sqrt(dL * dL + da * da + db * db), which is |dL| when a* and b* vanish
deltaE(lab1, lab2) == Abs(lab1[1] - lab2[1])

labOf(c) == rgbToLab(c[1], c[2], c[3])

paletteLabsOf(pal) == [c \in DOMAIN pal |-> labOf(pal[c])]

RECURSIVE nearestIn(_, _, _, _)
\* the scan `if (dist < bestDist)` from bestIdx = 0 returns the first index
\* of least distance; the range lo..hi (0-based) is halved, the left half
\* winning ties, so that long palettes evaluate in shallow depth
nearestIn(lab, paletteLabs, lo, hi) ==
    IF lo >= hi THEN lo
    ELSE Eval(nearestIn(lab, paletteLabs, lo, (lo + hi) \div 2), LAMBDA l :
         Eval(nearestIn(lab, paletteLabs, (lo + hi) \div 2 + 1, hi), LAMBDA r :
              IF deltaE(lab, paletteLabs[r + 1]) < deltaE(lab, paletteLabs[l + 1])
              THEN r ELSE l))

RECURSIVE farthestIn(_, _, _, _)
\* the comparison of the search turned round: the first entry of the largest
\* distance
farthestIn(lab, paletteLabs, lo, hi) ==
    IF lo >= hi THEN lo
    ELSE Eval(farthestIn(lab, paletteLabs, lo, (lo + hi) \div 2), LAMBDA l :
         Eval(farthestIn(lab, paletteLabs, (lo + hi) \div 2 + 1, hi), LAMBDA r :
              IF deltaE(lab, paletteLabs[r + 1]) > deltaE(lab, paletteLabs[l + 1])
              THEN r ELSE l))

farthestPaletteIndex(r, g, b, paletteLabs) ==
    farthestIn(rgbToLab(r, g, b), paletteLabs, 0, Len(paletteLabs) - 1)

nearestPaletteIndex(r, g, b, paletteLabs) ==
    nearestIn(rgbToLab(r, g, b), paletteLabs, 0, Len(paletteLabs) - 1)

-----------------------------------------------------------------------------
(* K-means refinement (refine.ts)                                           *)

\* assign step: assignments[p] = bestIdx, stored in a Uint8Array
assignStep(d, pal, asg) ==
    Eval(paletteLabsOf(pal), LAMBDA paletteLabs :
         [p \in DOMAIN d |->
             IF d[p][4] = 0 THEN asg[p]
             ELSE ToUint8(nearestPaletteIndex(d[p][1], d[p][2], d[p][3],
                                              paletteLabs))])

RECURSIVE clusterSum(_, _, _, _, _)
\* rSums / gSums / bSums (ch = 1, 2, 3) and counts (ch = 0) of cluster c
clusterSum(d, asg, c, ch, p) ==
    IF p > Len(d) THEN 0
    ELSE (IF d[p][4] # 0 /\ asg[p] = c
          THEN (IF ch = 0 THEN 1 ELSE d[p][ch]) ELSE 0)
         + clusterSum(d, asg, c, ch, p + 1)

\* the new centroid of cluster c (0-based), alpha set to 255
centroid(d, asg, c) ==
    Eval(clusterSum(d, asg, c, 0, 1), LAMBDA count :
         <<RoundDiv(clusterSum(d, asg, c, 1, 1), count),
           RoundDiv(clusterSum(d, asg, c, 2, 1), count),
           RoundDiv(clusterSum(d, asg, c, 3, 1), count), 255>>)

\* the clusters that received a pixel
occupied(d, asg) == {asg[p] : p \in {q \in DOMAIN d : d[q][4] # 0}}

\* update step: palette and the converged flag
updateStep(d, pal, asg) ==
    Eval(occupied(d, asg), LAMBDA occ :
    Eval([c \in DOMAIN pal |->
             IF (c - 1) \in occ THEN centroid(d, asg, c - 1) ELSE pal[c]],
         LAMBDA newPal :
         [palette |-> newPal,
          converged |->
              \A c \in DOMAIN pal :
                  (c - 1) \in occ =>
                      /\ Abs(newPal[c][1] - pal[c][1]) <= 1
                      /\ Abs(newPal[c][2] - pal[c][2]) <= 1
                      /\ Abs(newPal[c][3] - pal[c][3]) <= 1]))

\* one iteration of the k-means loop
kmeansIteration(d, pal, asg) ==
    Eval(assignStep(d, pal, asg), LAMBDA asg1 :
    Eval(updateStep(d, pal, asg1), LAMBDA u :
         [palette |-> u.palette, assignments |-> asg1,
          converged |-> u.converged]))

RECURSIVE kmeansLoop(_, _, _, _, _)
kmeansLoop(d, pal, asg, i, maxIter) ==
    IF i >= maxIter THEN pal
    ELSE Eval(kmeansIteration(d, pal, asg), LAMBDA it :
              IF it.converged THEN it.palette
              ELSE kmeansLoop(d, it.palette, it.assignments, i + 1, maxIter))

\* final assignment pass: indexedData and remappedData
finalPass(d, pal) ==
    Eval(paletteLabsOf(pal), LAMBDA paletteLabs :
    Eval([p \in DOMAIN d |->
             IF d[p][4] = 0 THEN 0
             ELSE nearestPaletteIndex(d[p][1], d[p][2], d[p][3], paletteLabs)],
         LAMBDA bestIdx :
         [indexedData |->
              [p \in DOMAIN d |-> ToUint8(bestIdx[p])],
          remappedData |->
              [p \in DOMAIN d |->
                  IF d[p][4] = 0 THEN <<0, 0, 0, 0>>
                  ELSE <<pal[bestIdx[p] + 1][1], pal[bestIdx[p] + 1][2],
                         pal[bestIdx[p] + 1][3], 255>>]]))

\* the whole call
refineWithKMeans(d, w, h, initPal, maxIter) ==
    IF Len(initPal) = 0 THEN EmptyResult(w * h)
    ELSE Eval(kmeansLoop(d, initPal, ZeroIndex(w * h), 0, maxIter),
              LAMBDA pal :
         Eval(finalPass(d, pal), LAMBDA m :
              [palette |-> pal, indexedData |-> m.indexedData,
               remappedData |-> m.remappedData, threw |-> FALSE]))

-----------------------------------------------------------------------------
(* Remapping to a palette (remap.ts)                                        *)

\* the alpha of the palette entry written in place of the pixel's own
remapWithPaletteAlpha(d, pal) ==
    IF Len(pal) = 0 THEN ZeroPixels(Len(d))
    ELSE Eval(paletteLabsOf(pal), LAMBDA paletteLabs :
         [p \in DOMAIN d |->
             IF d[p][4] = 0 THEN <<0, 0, 0, 0>>
             ELSE pal[nearestPaletteIndex(d[p][1], d[p][2], d[p][3],
                                          paletteLabs) + 1]])

remapToPalette(d, pal) ==
    IF Len(pal) = 0 THEN ZeroPixels(Len(d))
    ELSE Eval(paletteLabsOf(pal), LAMBDA paletteLabs :
         [p \in DOMAIN d |->
             IF d[p][4] = 0 THEN <<0, 0, 0, 0>>
             ELSE Eval(pal[nearestPaletteIndex(d[p][1], d[p][2], d[p][3],
                                               paletteLabs) + 1],
                       LAMBDA color :
                       <<color[1], color[2], color[3], d[p][4]>>)])

-----------------------------------------------------------------------------
(* The calls of refineWithKMeans and remapToPalette *)

\* grey pixels: three opaque levels, a half transparent one and a transparent
\* pixel that carries a colour
RefPixels ==
    {<<0, 0, 0, 255>>, <<100, 100, 100, 255>>, <<120, 120, 120, 255>>,
     <<255, 255, 255, 128>>, <<60, 60, 60, 0>>}

\* palette entries, with alpha 255 and with other alpha values
RefColors ==
    {<<0, 0, 0, 255>>, <<110, 110, 110, 200>>, <<250, 250, 250, 0>>}

\* a palette longer than a Uint8Array element can index: 256 black entries
\* and a white one at index 256
LongPalette ==
    [i \in 1..257 |-> IF i = 257 THEN <<255, 255, 255, 255>>
                      ELSE <<0, 0, 0, 255>>]

RefPalettes == {<<>>, LongPalette} \cup SeqsUpTo(RefColors, MaxPalette)

RefInit ==
    /\ fn = "refineWithKMeans"
    /\ pc = "call"
    /\ data \in SeqsUpTo(RefPixels, MaxRefPixels)
    /\ width = Len(data)
    /\ height = 1
    /\ initialPalette \in RefPalettes
    /\ maxIterations \in 0..MaxIter
    /\ NoQuantArgs /\ NoSnapArgs
    /\ OctIdle /\ MedIdle /\ RefIdle /\ SnapIdle /\ NoResult /\ DetIdle
    /\ NoMergeArgs /\ LateIdle

RefEarlyReturn ==
    /\ fn = "refineWithKMeans" /\ pc = "call"
    /\ Len(initialPalette) = 0
    /\ palette' = <<>>
    /\ indexedData' = ZeroIndex(width * height)
    /\ remappedData' = ZeroPixels(width * height)
    /\ pc' = "done"
    /\ UNCHANGED <<callVars, notRef, refVars>>

\* the working copy of the palette and the zeroed assignments
RefStart ==
    /\ fn = "refineWithKMeans" /\ pc = "call"
    /\ Len(initialPalette) # 0
    /\ palette' = initialPalette
    /\ assignments' = ZeroIndex(width * height)
    /\ iter' = 0
    /\ pc' = "loop"
    /\ UNCHANGED <<callVars, notRef, indexedData, remappedData>>

\* one iteration of the k-means loop, left by `break` when it converged
RefIterate ==
    /\ fn = "refineWithKMeans" /\ pc = "loop"
    /\ iter < maxIterations
    /\ LET it == kmeansIteration(data, palette, assignments)
       IN  /\ palette' = it.palette
           /\ assignments' = it.assignments
           /\ iter' = (IF it.converged THEN iter ELSE iter + 1)
           /\ pc' = (IF it.converged THEN "final" ELSE "loop")
    /\ UNCHANGED <<callVars, notRef, indexedData, remappedData>>

\* the loop condition fails
RefLoopDone ==
    /\ fn = "refineWithKMeans" /\ pc = "loop"
    /\ iter >= maxIterations
    /\ pc' = "final"
    /\ UNCHANGED <<callVars, notRef, refVars, outVars>>

RefFinalPass ==
    /\ fn = "refineWithKMeans" /\ pc = "final"
    /\ LET m == finalPass(data, palette)
       IN  indexedData' = m.indexedData /\ remappedData' = m.remappedData
    /\ pc' = "done"
    /\ UNCHANGED <<callVars, notRef, refVars, palette>>

RefNext ==
    \/ RefEarlyReturn
    \/ RefStart
    \/ RefIterate
    \/ RefLoopDone
    \/ RefFinalPass

SpecRefine == RefInit /\ [][RefNext]_vars

\* remapToPalette(data, palette): the palette is passed in initialPalette and
\* the returned buffer is remappedData
RemapInit ==
    /\ fn = "remapToPalette"
    /\ pc = "call"
    /\ data \in SeqsUpTo(RefPixels, MaxRefPixels)
    /\ width = Len(data)
    /\ height = 1
    /\ initialPalette \in RefPalettes
    /\ maxIterations = 0
    /\ NoQuantArgs /\ NoSnapArgs
    /\ OctIdle /\ MedIdle /\ RefIdle /\ SnapIdle /\ NoResult /\ DetIdle
    /\ NoMergeArgs /\ LateIdle

RemapCall ==
    /\ fn = "remapToPalette" /\ pc = "call"
    /\ remappedData' = remapToPalette(data, initialPalette)
    /\ pc' = "done"
    /\ UNCHANGED <<callVars, notRef, refVars, palette, indexedData>>

\* the caller remaps the returned buffer to the same palette once more
RemapAgain ==
    /\ fn = "remapToPalette" /\ pc = "done"
    /\ remappedData' = remapToPalette(remappedData, initialPalette)
    /\ pc' = "again"
    /\ UNCHANGED <<callVars, notRef, refVars, palette, indexedData>>

RemapNext ==
    \/ RemapCall
    \/ RemapAgain

SpecRemap == RemapInit /\ [][RemapNext]_vars

-----------------------------------------------------------------------------
(* The colour engine: a call of any of the four functions *)

ColorInit == OctInit \/ MedInit \/ RefInit \/ RemapInit

ColorNext == OctNext \/ MedNext \/ RefNext \/ RemapCall

SpecColor == ColorInit /\ [][ColorNext]_vars

\* what the called function returns for the buffer d and the other arguments
\* of the call
callResult(d) ==
    CASE fn = "octreeQuantize" ->
             octreeQuantize(d, width, height, targetColors)
      [] fn = "medianCutQuantize" ->
             medianCutQuantize(d, width, height, targetColors)
      [] fn = "refineWithKMeans" ->
             refineWithKMeans(d, width, height, initialPalette, maxIterations)
      [] fn = "remapToPalette" ->
             [palette |-> <<>>, indexedData |-> <<>>,
              remappedData |-> remapToPalette(d, initialPalette),
              threw |-> FALSE]

-----------------------------------------------------------------------------
(* Grid snapping (snap.ts)                                                  *)

\* MaxSide bounds the sides of the source images, MaxGrid the grid sizes
MaxSide == 3

MaxGrid == 3

\* getPixel: (y * width + x) * 4 is the byte offset of pixel (x, y)
getPixel(source, sourceWidth, x, y) == source[y * sourceWidth + x + 1]

\* floor(sqrt(x))
Isqrt(x) == CHOOSE n \in 0..10000 : n * n <= x /\ (n + 1) * (n + 1) > x

\* weight = 1 / (1 + dist) in units of 10^-5, where halfBlock = (G - 1) / 2 and
\* dist = sqrt(distX^2 + distY^2) = sqrt((2 dx - G + 1)^2 + (2 dy - G + 1)^2) / 2
weightAt(G, dx, dy) ==
    LET ex == 2 * dx - (G - 1)
        ey == 2 * dy - (G - 1)
    IN  200000000 \div (2000 + Isqrt((ex * ex + ey * ey) * 1000000))

\* the weights of the block offsets, for every grid size of the model; on its
\* images the rounded averages below are those of the double arithmetic
WeightTable ==
    [G \in 1..MaxGrid |->
        [dx \in 0..(G - 1) |-> [dy \in 0..(G - 1) |-> weightAt(G, dx, dy)]]]

\* the loops `for dy ... for dx ...`: the source pixels of block (lx, ly) in
\* scan order, those outside the source skipped
blockPixels(source, sourceWidth, sourceHeight, G, lx, ly) ==
    LET at(k) == [dx |-> (k - 1) % G, dy |-> (k - 1) \div G]
        inside(k) == /\ lx * G + at(k).dx < sourceWidth
                     /\ ly * G + at(k).dy < sourceHeight
        all == [k \in 1..(G * G) |->
                   IF inside(k)
                   THEN [dx |-> at(k).dx, dy |-> at(k).dy, in |-> TRUE,
                         px |-> getPixel(source, sourceWidth,
                                         lx * G + at(k).dx, ly * G + at(k).dy)]
                   ELSE [dx |-> at(k).dx, dy |-> at(k).dy, in |-> FALSE,
                         px |-> <<0, 0, 0, 0>>]]
    IN  SelectSeq(all, LAMBDA e : e.in)

RECURSIVE freqIncrement(_, _, _)
\* colorFreq.get(key): count++ and a += alpha, or a new entry at the end
freqIncrement(m, px, i) ==
    IF i > Len(m)
    THEN Append(m, [key |-> PackRGB(px[1], px[2], px[3]), count |-> 1,
                    r |-> px[1], g |-> px[2], b |-> px[3], a |-> px[4]])
    ELSE IF m[i].key = PackRGB(px[1], px[2], px[3])
         THEN [m EXCEPT ![i].count = @ + 1, ![i].a = @ + px[4]]
         ELSE freqIncrement(m, px, i + 1)

RECURSIVE colorFreqOf(_, _, _)
\* the frequency map of a block, in insertion order
colorFreqOf(pixels, k, m) ==
    IF k > Len(pixels) THEN m
    ELSE Eval(freqIncrement(m, pixels[k].px, 1), LAMBDA m1 :
              colorFreqOf(pixels, k + 1, m1))

\* a sum of alphas stored as it is, without the division by the count
majorityAlphaSum(entry) == IF entry.a > 255 THEN 255 ELSE entry.a

\* chosenA = Math.round(entry.a / entry.count)
majorityAlpha(entry) == RoundDiv(entry.a, entry.count)

\* the threshold test with >= in place of >
isMajorityFromHalf(count, blockPixelCount) == 2 * count >= blockPixelCount

\* entry.count > blockPixelCount * 0.5
isMajority(count, blockPixelCount) == 2 * count > blockPixelCount

RECURSIVE majorityIndex(_, _, _)
\* the first entry over the threshold, 0 when `found` stays false
majorityIndex(m, blockPixelCount, i) ==
    IF i > Len(m) THEN 0
    ELSE IF isMajority(m[i].count, blockPixelCount) THEN i
    ELSE majorityIndex(m, blockPixelCount, i + 1)

RECURSIVE weightedSum4(_, _, _, _)
\* wR, wG, wB, wA (ch = 1..4) and totalWeight (ch = 0) of a block
weightedSum4(pixels, G, ch, k) ==
    IF k > Len(pixels) THEN 0
    ELSE (IF ch = 0 THEN 1 ELSE pixels[k].px[ch])
             * WeightTable[G][pixels[k].dx][pixels[k].dy]
         + weightedSum4(pixels, G, ch, k + 1)

\* fallback: the average weighted by the distance from the block centre
weightedCentre(pixels, G) ==
    Eval(weightedSum4(pixels, G, 0, 1), LAMBDA totalWeight :
         IF totalWeight > 0
         THEN <<RoundDiv(weightedSum4(pixels, G, 1, 1), totalWeight),
                RoundDiv(weightedSum4(pixels, G, 2, 1), totalWeight),
                RoundDiv(weightedSum4(pixels, G, 3, 1), totalWeight),
                RoundDiv(weightedSum4(pixels, G, 4, 1), totalWeight)>>
         ELSE <<0, 0, 0, 0>>)

\* the output pixel of block (lx, ly)
snapBlock(source, sourceWidth, sourceHeight, G, lx, ly) ==
    Eval(blockPixels(source, sourceWidth, sourceHeight, G, lx, ly),
         LAMBDA pixels :
    Eval(colorFreqOf(pixels, 1, <<>>), LAMBDA colorFreq :
    Eval(majorityIndex(colorFreq, G * G, 1), LAMBDA found :
         IF found # 0
         THEN <<colorFreq[found].r, colorFreq[found].g, colorFreq[found].b,
                majorityAlpha(colorFreq[found])>>
         ELSE weightedCentre(pixels, G))))

\* Math.ceil in place of Math.floor
logicalSizeCeil(sourceSize, G) == (sourceSize + G - 1) \div G

\* Math.floor(sourceWidth / gridSize)
logicalSize(sourceSize, G) == sourceSize \div G

\* `return { data: source, ... }`: the result refers to the caller's buffer
sameBuffer(source) == [alloc |-> "source", bytes |-> source]

\* new Uint8ClampedArray(source): a new allocation holding the same bytes
copyBuffer(source) == [alloc |-> "copy", bytes |-> source]

\* the whole call; threw stands for the thrown Error
snapToGrid(source, sourceWidth, sourceHeight, G) ==
    IF G < 1
    THEN [threw |-> TRUE, data |-> <<>>, width |-> 0, height |-> 0,
          alloc |-> ""]
    ELSE IF G = 1
    THEN [threw |-> FALSE, data |-> copyBuffer(source).bytes,
          width |-> sourceWidth, height |-> sourceHeight,
          alloc |-> copyBuffer(source).alloc]
    ELSE LET logicalWidth == logicalSize(sourceWidth, G)
             logicalHeight == logicalSize(sourceHeight, G)
         IN  IF logicalWidth <= 0 \/ logicalHeight <= 0
             THEN [threw |-> TRUE, data |-> <<>>, width |-> 0, height |-> 0,
                   alloc |-> ""]
             ELSE [threw |-> FALSE,
                   data |-> [o \in 1..(logicalWidth * logicalHeight) |->
                                snapBlock(source, sourceWidth, sourceHeight, G,
                                          (o - 1) % logicalWidth,
                                          (o - 1) \div logicalWidth)],
                   width |-> logicalWidth, height |-> logicalHeight,
                   alloc |-> "output"]

-----------------------------------------------------------------------------
(* The calls of snapToGrid *)

\* two opaque colours, one of them also half transparent, a transparent
\* pixel that carries a colour and the transparent black pixel
SnapPixels ==
    {<<200, 0, 0, 255>>, <<200, 0, 0, 100>>, <<0, 0, 200, 255>>,
     <<9, 9, 9, 0>>, <<0, 0, 0, 0>>}

\* the pixels of the larger, noisy blocks
NoisePixels == {<<200, 0, 0, 255>>, <<200, 0, 0, 100>>, <<0, 0, 200, 255>>}

\* the images of the given sides over the pixel set P
ImagesOver(P, sides) ==
    UNION {{[w |-> w, h |-> h, px |-> f] : f \in [1..(w * h) -> P]} :
              <<w, h>> \in sides \X sides}

\* makeSyntheticImage: every logical pixel becomes a solid G x G block
replicate(img, G) ==
    [w |-> img.w * G, h |-> img.h * G,
     px |-> [k \in 1..(img.w * G * img.h * G) |->
                getPixel(img.px, img.w,
                         ((k - 1) % (img.w * G)) \div G,
                         ((k - 1) \div (img.w * G)) \div G)]]

\* the source is any image of the given sides over the pixel set P
AnyImage(P, sides) ==
    \E w \in sides, h \in sides :
        width = w /\ height = h /\ data \in [1..(w * h) -> P]

\* the source is a small logical image replicated into blocks of side 2..MaxGrid
CleanGrid ==
    \E img \in ImagesOver(SnapPixels, 1..(MaxSide - 1)), G \in 2..MaxGrid :
        /\ width = replicate(img, G).w
        /\ height = replicate(img, G).h
        /\ data = replicate(img, G).px

\* a call of snapToGrid, the source left open
SnapCall ==
    /\ fn = "snapToGrid"
    /\ pc = "call"
    /\ gridSize \in 0..MaxGrid
    /\ NoQuantArgs /\ NoRefineArgs
    /\ OctIdle /\ MedIdle /\ RefIdle /\ SnapIdle /\ NoResult /\ DetIdle
    /\ NoMergeArgs /\ LateIdle

\* small images of any pixels, noisy images of side MaxSide, clean grids
SnapInit ==
    /\ SnapCall
    /\ \/ AnyImage(SnapPixels, 1..(MaxSide - 1))
       \/ AnyImage(NoisePixels, {MaxSide})
       \/ CleanGrid

\* the state after the call returned r
SnapReturn(r) ==
    /\ snapData' = r.data
    /\ snapWidth' = r.width
    /\ snapHeight' = r.height
    /\ snapAlloc' = r.alloc
    /\ pc' = (IF r.threw THEN "threw" ELSE "done")
    /\ UNCHANGED <<callVars, notSnap>>

\* throw new Error(`gridSize must be >= 1`)
SnapThrowGridSize ==
    /\ fn = "snapToGrid" /\ pc = "call"
    /\ gridSize < 1
    /\ SnapReturn(snapToGrid(data, width, height, gridSize))

\* gridSize === 1: the copy of the source
SnapCopy ==
    /\ fn = "snapToGrid" /\ pc = "call"
    /\ gridSize = 1
    /\ SnapReturn(snapToGrid(data, width, height, gridSize))

\* throw new Error(`Grid size ... is too large`)
SnapThrowTooLarge ==
    /\ fn = "snapToGrid" /\ pc = "call"
    /\ gridSize > 1
    /\ logicalSize(width, gridSize) <= 0 \/ logicalSize(height, gridSize) <= 0
    /\ SnapReturn(snapToGrid(data, width, height, gridSize))

\* the loops over the blocks
SnapBlocks ==
    /\ fn = "snapToGrid" /\ pc = "call"
    /\ gridSize > 1
    /\ logicalSize(width, gridSize) > 0 /\ logicalSize(height, gridSize) > 0
    /\ SnapReturn(snapToGrid(data, width, height, gridSize))

SnapNext ==
    \/ SnapThrowGridSize
    \/ SnapCopy
    \/ SnapThrowTooLarge
    \/ SnapBlocks

SpecSnap == SnapInit /\ [][SnapNext]_vars

\* the pixel that a caller writes after the call
WrittenPixel == <<1, 2, 3, 4>>

argVars == <<fn, width, height, targetColors, initialPalette, maxIterations,
             gridSize, indexA, indexB, uniqueColors>>

\* the caller writes into the source buffer; the write shows in the result
\* when the result refers to the same allocation
SnapWriteSource ==
    /\ fn = "snapToGrid" /\ pc = "done"
    /\ \E p \in DOMAIN data :
           /\ data' = [data EXCEPT ![p] = WrittenPixel]
           /\ snapData' = (IF snapAlloc = "source" THEN data' ELSE snapData)
    /\ pc' = "written"
    /\ UNCHANGED <<argVars, snapWidth, snapHeight, snapAlloc, notSnap>>

\* the caller writes into the returned buffer
SnapWriteResult ==
    /\ fn = "snapToGrid" /\ pc = "done"
    /\ \E p \in DOMAIN snapData :
           /\ snapData' = [snapData EXCEPT ![p] = WrittenPixel]
           /\ data' = (IF snapAlloc = "source" THEN snapData' ELSE data)
    /\ pc' = "written"
    /\ UNCHANGED <<argVars, snapWidth, snapHeight, snapAlloc, notSnap>>

SnapAliasNext ==
    \/ SnapNext
    \/ SnapWriteSource
    \/ SnapWriteResult

\* the call followed by one write of the caller
SnapAliasInit == SnapCall /\ AnyImage(SnapPixels, 1..(MaxSide - 1))

SpecSnapAlias == SnapAliasInit /\ [][SnapAliasNext]_vars

-----------------------------------------------------------------------------
(* Grid detection (detect.ts)                                               *)

COLOR_TOLERANCE == 30

\* the default candidate range of edgeAwareScores
minG == 2

maxG == 32

\* colorDistance: the sum of the absolute RGB differences, alpha ignored
colorDistance(a, b) == Abs(a[1] - b[1]) + Abs(a[2] - b[2]) + Abs(a[3] - b[3])

RECURSIVE lineRuns(_, _, _, _)
\* the recorded run lengths of one row or column, in scan order; prev is the
\* first pixel of the current run, and a run of one pixel is not recorded
lineRuns(line, x, runLength, prev) ==
    LET recorded == IF runLength >= 2 THEN <<runLength>> ELSE <<>>
    IN  IF x > Len(line) THEN recorded
        ELSE IF colorDistance(prev, line[x]) < COLOR_TOLERANCE
             THEN lineRuns(line, x + 1, runLength + 1, prev)
             ELSE recorded \o lineRuns(line, x + 1, 1, line[x])

\* runsBased: the histogram of the run lengths of the rows, then of the
\* columns; a sequence of [size, count] in the insertion order of the Map
runsBased(d, w, h) ==
    LET row(y) == [x \in 1..w |-> getPixel(d, w, x - 1, y)]
        col(x) == [y \in 1..h |-> getPixel(d, w, x, y - 1)]
        RECURSIVE rowRuns(_), colRuns(_), histogramOf(_, _, _), add(_, _, _)
        rowRuns(y) == IF y >= h THEN <<>>
                      ELSE lineRuns(row(y), 2, 1, row(y)[1]) \o rowRuns(y + 1)
        colRuns(x) == IF x >= w THEN <<>>
                      ELSE lineRuns(col(x), 2, 1, col(x)[1]) \o colRuns(x + 1)
        add(hist, size, i) ==
            IF i > Len(hist) THEN Append(hist, [size |-> size, count |-> 1])
            ELSE IF hist[i].size = size
                 THEN [hist EXCEPT ![i].count = @ + 1]
                 ELSE add(hist, size, i + 1)
        histogramOf(runs, k, hist) ==
            IF k > Len(runs) THEN hist
            ELSE Eval(add(hist, runs[k], 1), LAMBDA h1 :
                      histogramOf(runs, k + 1, h1))
    IN  Eval(rowRuns(0) \o colRuns(0), LAMBDA runs : histogramOf(runs, 1, <<>>))

\* histogramMode: the first size of the largest count, 1 for an empty histogram
histogramMode(histogram) ==
    LET RECURSIVE scan(_, _, _)
        scan(i, bestSize, bestCount) ==
            IF i > Len(histogram) THEN bestSize
            ELSE IF histogram[i].count > bestCount
                 THEN scan(i + 1, histogram[i].size, histogram[i].count)
                 ELSE scan(i + 1, bestSize, bestCount)
    IN  scan(1, 1, 0)

\* edgeAwareScores: for every candidate g the gradient on the grid lines of g
\* (grid) over the gradient of the whole image (total), in the insertion order
\* of the Map; a uniform image scores 0 for every g of minG..maxG
edgeAwareScores(d, w, h) ==
    LET hGradient(x, y) ==
            colorDistance(getPixel(d, w, x, y), getPixel(d, w, x + 1, y))
        vGradient(x, y) ==
            colorDistance(getPixel(d, w, x, y), getPixel(d, w, x, y + 1))
        RECURSIVE sumOver(_, _)
        sumOver(S, f) ==
            IF S = {} THEN 0
            ELSE LET q == CHOOSE q \in S : TRUE
                 IN  f[q] + sumOver(S \ {q}, f)
        hAll == (0..(w - 2)) \X (0..(h - 1))
        vAll == (0..(w - 1)) \X (0..(h - 2))
        hg == [q \in hAll |-> hGradient(q[1], q[2])]
        vg == [q \in vAll |-> vGradient(q[1], q[2])]
        totalGradient == sumOver(hAll, hg) + sumOver(vAll, vg)
        effectiveMaxG == MinOf({maxG, MaxOf({w, h})})
        \* `for (col = g; col < width; col += g)`: the multiples of g below limit
        gridLines(g, limit) == {c \in 1..(limit - 1) : c % g = 0}
        gridGradient(g) ==
            sumOver({q \in hAll : q[1] + 1 \in gridLines(g, w)}, hg)
                + sumOver({q \in vAll : q[2] + 1 \in gridLines(g, h)}, vg)
    IN  Eval(totalGradient, LAMBDA total :
             IF total = 0
             THEN [k \in 1..(maxG - minG + 1) |->
                      [size |-> minG + k - 1, grid |-> 0, total |-> 1]]
             ELSE [k \in 1..(effectiveMaxG - minG + 1) |->
                      [size |-> minG + k - 1, grid |-> gridGradient(minG + k - 1),
                       total |-> total]])

RECURSIVE GCD(_, _)
\* the greatest common divisor
GCD(a, b) == IF b = 0 THEN a ELSE GCD(b, a % b)

\* allCandidates: the sizes of the runs histogram between 2 and the longer
\* side, then the sizes of the edge scores, then 1, each size once, in the
\* insertion order of the Set
allCandidates(runsHistogram, edgeScores, w, h) ==
    LET fromRuns == SelectSeq([k \in DOMAIN runsHistogram |->
                                  runsHistogram[k].size],
                              LAMBDA size : size >= 2 /\ size <= MaxOf({w, h}))
        fromEdge == SelectSeq([k \in DOMAIN edgeScores |-> edgeScores[k].size],
                              LAMBDA size : size \notin Range(fromRuns))
    IN  fromRuns \o fromEdge \o <<1>>

RECURSIVE sortByScore(_, _, _)
\* Array.prototype.sort((a, b) => b[1] - a[1]): stable, descending by score;
\* the k-th entry is inserted behind the entries of a score that is not lower
sortByScore(entries, k, sorted) ==
    IF k > Len(entries) THEN sorted
    ELSE LET e == entries[k]
             ahead == SelectSeq(sorted, LAMBDA o : o.score.num >= e.score.num)
             behind == SelectSeq(sorted, LAMBDA o : o.score.num < e.score.num)
         IN  sortByScore(entries, k + 1, ahead \o <<e>> \o behind)

\* the sum runsAgreement + separation * 0.5 + bestScore * 0.5 left as it is
confidenceUnclamped(agree, best, second, den) ==
    IF best > 0
    THEN [num |-> (IF agree THEN 3 * best * den ELSE 0)
                      + 5 * (best - second) * den + 5 * best * best,
          den |-> 10 * best * den]
    ELSE [num |-> IF agree THEN 3 ELSE 0, den |-> 10]

\* confidence = clamp(runsAgreement + separation * 0.5 + bestScore * 0.5), as a
\* fraction; best and second are the numerators of the two highest scores
confidenceOf(agree, best, second, den) ==
    LET c == IF best > 0
             THEN [num |-> (IF agree THEN 3 * best * den ELSE 0)
                               + 5 * (best - second) * den + 5 * best * best,
                   den |-> 10 * best * den]
             ELSE [num |-> IF agree THEN 3 ELSE 0, den |-> 10]
    IN  IF c.num > c.den THEN [num |-> 1, den |-> 1]
        ELSE IF c.num < 0 THEN [num |-> 0, den |-> 1]
        ELSE c

\* detectGridSize; a score runsScore * 0.4 + edgeScore * 0.6 is the fraction
\* (2 * runs * totalGradient + 3 * grid * totalRuns) / (5 * totalRuns *
\* totalGradient); the scores of a call are kept over one denominator, reduced
\* by their common divisor
detectGridSize(d, w, h) ==
    IF w <= 1 \/ h <= 1
    THEN [gridSize |-> 1, confidence |-> [num |-> 1, den |-> 1],
          candidates |-> <<[size |-> 1, score |-> [num |-> 1, den |-> 1]]>>,
          logicalWidth |-> w, logicalHeight |-> h]
    ELSE
    Eval(runsBased(d, w, h), LAMBDA runsHistogram :
    Eval(edgeAwareScores(d, w, h), LAMBDA edgeScores :
    LET RECURSIVE sumCounts(_)
        sumCounts(k) == IF k > Len(runsHistogram) THEN 0
                        ELSE runsHistogram[k].count + sumCounts(k + 1)
        totalRuns == IF sumCounts(1) = 0 THEN 1 ELSE sumCounts(1)
        totalGradient == edgeScores[1].total
        gridOf(size) ==
            LET hit == SelectSeq(edgeScores, LAMBDA e : e.size = size)
            IN  IF hit = <<>> THEN 0 ELSE hit[1].grid
        sizes == allCandidates(runsHistogram, edgeScores, w, h)
        \* runsHistogram.get(size) ?? 0
        runsCount(size) ==
            LET hit == SelectSeq(runsHistogram, LAMBDA e : e.size = size)
            IN  IF hit = <<>> THEN 0 ELSE hit[1].count
        numOf(size) == 2 * runsCount(size) * totalGradient
                           + 3 * gridOf(size) * totalRuns
        RECURSIVE gcdFrom(_, _)
        gcdFrom(k, g) == IF k > Len(sizes) THEN g
                         ELSE gcdFrom(k + 1, GCD(g, numOf(sizes[k])))
        common == gcdFrom(1, 5 * totalRuns * totalGradient)
        den == (5 * totalRuns * totalGradient) \div common
        combined ==
            [k \in DOMAIN sizes |->
                [size |-> sizes[k],
                 score |-> [num |-> numOf(sizes[k]) \div common, den |-> den]]]
    IN  Eval(sortByScore(combined, 1, <<>>), LAMBDA sorted :
        LET top3 == SubSeq(sorted, 1, MinOf({3, Len(sorted)}))
            bestSize == top3[1].size
        IN  [gridSize |-> bestSize,
             confidence |->
                 confidenceOf(histogramMode(runsHistogram) = bestSize,
                              top3[1].score.num, top3[2].score.num, den),
             candidates |-> top3,
             logicalWidth |-> w \div bestSize,
             logicalHeight |-> h \div bestSize])))

-----------------------------------------------------------------------------
(* The calls of detectGridSize *)

\* black, a colour within COLOR_TOLERANCE of black, a colour far from both
DetPixels == {<<0, 0, 0, 255>>, <<20, 0, 0, 255>>, <<200, 0, 0, 255>>}

\* the colours of the blocks: DetPixels and a half transparent one
BlockPixels == DetPixels \cup {<<200, 0, 0, 100>>}

\* the source is an L x L logical image replicated into blocks of side
\* 1..MaxGrid: L = 2 over BlockPixels, L = 3 over two colours
DetGrid ==
    \E img \in ImagesOver(BlockPixels, {2})
                   \cup ImagesOver({<<0, 0, 0, 255>>, <<200, 0, 0, 255>>}, {3}),
       G \in 1..MaxGrid :
        /\ width = replicate(img, G).w
        /\ height = replicate(img, G).h
        /\ data = replicate(img, G).px

DetInit ==
    /\ fn = "detectGridSize"
    /\ pc = "call"
    /\ AnyImage(DetPixels, 1..MaxSide) \/ DetGrid
    /\ NoQuantArgs /\ NoRefineArgs /\ NoSnapArgs
    /\ OctIdle /\ MedIdle /\ RefIdle /\ SnapIdle /\ NoResult /\ DetIdle
    /\ NoMergeArgs /\ LateIdle

\* width <= 1 || height <= 1: the tiny image
DetTiny ==
    /\ fn = "detectGridSize" /\ pc = "call"
    /\ width <= 1 \/ height <= 1
    /\ detection' = detectGridSize(data, width, height)
    /\ pc' = "done"
    /\ UNCHANGED <<callVars, notDet>>

\* runs histogram, edge scores, combined ranking
DetCombine ==
    /\ fn = "detectGridSize" /\ pc = "call"
    /\ width > 1 /\ height > 1
    /\ detection' = detectGridSize(data, width, height)
    /\ pc' = "done"
    /\ UNCHANGED <<callVars, notDet>>

DetNext ==
    \/ DetTiny
    \/ DetCombine

SpecDetect == DetInit /\ [][DetNext]_vars

-----------------------------------------------------------------------------
(* Merging two palette entries (remap.ts)                                   *)

\* `result.push(palette[i])`: the entry array of the input pushed as it is
sameEntry(pal, i) == [color |-> pal[i + 1], alloc |-> i + 1]

\* `[...palette[i]] as Color`: a new array holding the entry's channels; alloc
\* is the input entry whose array the result entry is, 0 for a new array
copyEntry(pal, i) == [color |-> pal[i + 1], alloc |-> 0]

\* the channels truncated in place of rounded
mergedFloor(a, b) == [ch \in 1..4 |-> (a[ch] + b[ch]) \div 2]

\* merged: Math.round((a[ch] + b[ch]) / 2) for the four channels
mergedColor(a, b) == [ch \in 1..4 |-> RoundDiv(a[ch] + b[ch], 2)]

\* mergePaletteColors, the indices counted from 0; threw stands for the
\* RangeError
mergePaletteColors(pal, iA, iB) ==
    LET entry(i) ==
            IF i = iA /\ iA # iB
            THEN [color |-> mergedColor(pal[iA + 1], pal[iB + 1]), alloc |-> 0]
            ELSE copyEntry(pal, i)
        result(keep) ==
            [threw |-> FALSE,
             palette |-> [k \in 1..Len(keep) |-> entry(keep[k]).color],
             alloc |-> [k \in 1..Len(keep) |-> entry(keep[k]).alloc]]
        all == [k \in 1..Len(pal) |-> k - 1]
    IN  IF iA = iB THEN result(all)
        ELSE IF iA < 0 \/ iA >= Len(pal) \/ iB < 0 \/ iB >= Len(pal)
        THEN [threw |-> TRUE, palette |-> <<>>, alloc |-> <<>>]
        ELSE result(SelectSeq(all, LAMBDA i : i # iB))

-----------------------------------------------------------------------------
(* The calls of mergePaletteColors *)

MaxMerge == 3

\* entries whose channel sums are odd and even, with three alpha values
MergeColors == {<<0, 0, 0, 255>>, <<255, 1, 10, 0>>, <<3, 2, 1, 128>>}

MergeInit ==
    /\ fn = "mergePaletteColors"
    /\ pc = "call"
    /\ initialPalette \in {<<>>} \cup SeqsUpTo(MergeColors, MaxMerge)
    /\ indexA \in -1..MaxMerge
    /\ indexB \in -1..MaxMerge
    /\ data = <<>> /\ width = 0 /\ height = 0
    /\ maxIterations = 0
    /\ NoQuantArgs /\ NoSnapArgs
    /\ OctIdle /\ MedIdle /\ RefIdle /\ SnapIdle /\ NoResult /\ DetIdle
    /\ LateIdle

\* the state after the call returned r
MergeReturn(r) ==
    /\ palette' = r.palette
    /\ mergedAlloc' = r.alloc
    /\ pc' = (IF r.threw THEN "threw" ELSE "done")
    /\ UNCHANGED <<callVars, octVars, medVars, refVars, snapVars, detVars,
                   indexedData, remappedData, cleanup, histVars>>

\* indexA === indexB: the deep copy
MergeCopy ==
    /\ fn = "mergePaletteColors" /\ pc = "call"
    /\ indexA = indexB
    /\ MergeReturn(mergePaletteColors(initialPalette, indexA, indexB))

\* throw new RangeError
MergeThrow ==
    /\ fn = "mergePaletteColors" /\ pc = "call"
    /\ indexA # indexB
    /\ \/ indexA < 0 \/ indexA >= Len(initialPalette)
       \/ indexB < 0 \/ indexB >= Len(initialPalette)
    /\ MergeReturn(mergePaletteColors(initialPalette, indexA, indexB))

\* the averaged entry replaces A, entry B is removed
MergeAverage ==
    /\ fn = "mergePaletteColors" /\ pc = "call"
    /\ indexA # indexB
    /\ indexA >= 0 /\ indexA < Len(initialPalette)
    /\ indexB >= 0 /\ indexB < Len(initialPalette)
    /\ MergeReturn(mergePaletteColors(initialPalette, indexA, indexB))

\* the caller writes into an entry array of the input palette; the write shows
\* in the result entries that are the same array
MergeWriteInput ==
    /\ fn = "mergePaletteColors" /\ pc = "done"
    /\ \E i \in DOMAIN initialPalette :
           /\ initialPalette' = [initialPalette EXCEPT ![i] = WrittenPixel]
           /\ palette' = [k \in DOMAIN palette |->
                             IF mergedAlloc[k] = i THEN WrittenPixel
                             ELSE palette[k]]
    /\ pc' = "written"
    /\ UNCHANGED <<fn, data, width, height, targetColors, maxIterations,
                   gridSize, indexA, indexB, uniqueColors, octVars, medVars,
                   refVars,
                   snapVars, detVars, indexedData, remappedData, lateVars,
                   histVars>>

\* the caller writes into an entry array of the result
MergeWriteResult ==
    /\ fn = "mergePaletteColors" /\ pc = "done"
    /\ \E k \in DOMAIN palette :
           /\ palette' = [palette EXCEPT ![k] = WrittenPixel]
           /\ initialPalette' =
                  [i \in DOMAIN initialPalette |->
                      IF mergedAlloc[k] = i THEN WrittenPixel
                      ELSE initialPalette[i]]
    /\ pc' = "written"
    /\ UNCHANGED <<fn, data, width, height, targetColors, maxIterations,
                   gridSize, indexA, indexB, uniqueColors, octVars, medVars,
                   refVars,
                   snapVars, detVars, indexedData, remappedData, lateVars,
                   histVars>>

MergeNext ==
    \/ MergeCopy
    \/ MergeThrow
    \/ MergeAverage
    \/ MergeWriteInput
    \/ MergeWriteResult

SpecMerge == MergeInit /\ [][MergeNext]_vars

-----------------------------------------------------------------------------
(* One-click cleanup (cleanup pipeline)                                     *)

\* the frequency map of the opaque colours with every pixel counted, its
\* alpha not tested
extractEveryColor(d) ==
    LET RECURSIVE from(_, _)
        from(i, map) ==
            IF i > Len(d) THEN map
            ELSE Eval(PackRGB(d[i][1], d[i][2], d[i][3]), LAMBDA key :
                 from(i + 1,
                      IF key \in DOMAIN map THEN [map EXCEPT ![key] = @ + 1]
                      ELSE map @@ (key :> 1)))
    IN  from(1, <<>>)

\* the Map from (r << 16) | (g << 8) | b to the number of pixels of that
\* colour; fully transparent pixels are skipped
extractColors(d) ==
    LET RECURSIVE from(_, _)
        from(i, map) ==
            IF i > Len(d) THEN map
            ELSE IF d[i][4] = 0 THEN from(i + 1, map)
            ELSE Eval(PackRGB(d[i][1], d[i][2], d[i][3]), LAMBDA key :
                 from(i + 1,
                      IF key \in DOMAIN map THEN [map EXCEPT ![key] = @ + 1]
                      ELSE map @@ (key :> 1)))
    IN  from(1, <<>>)

suggestColorCount(n) ==
    IF n < 16 THEN n
    ELSE IF n <= 64 THEN 16
    ELSE IF n <= 256 THEN 24
    ELSE 32

-----------------------------------------------------------------------------
(* The calls of autoClean and of suggestColorCount *)

\* the longest strip of the model
MaxStrip == 35

\* the largest number of colours handed to suggestColorCount
MaxUnique == 300

\* n opaque colours that differ in bits 1..3 only, so that the octree of a
\* strip stays narrow
ramp(n) ==
    [i \in 1..n |->
        <<2 * ((i - 1) % 4), 2 * (((i - 1) \div 4) % 4), 2 * ((i - 1) \div 16),
          255>>]

\* what the last pixel of a strip is replaced with: a transparent pixel that
\* carries a new colour, a copy of the first pixel, a half transparent copy
\* of the first pixel with bit 0 set
StripEnds == {<<1, 1, 1, 0>>, <<0, 0, 0, 255>>, <<1, 0, 0, 128>>}

\* the source is a strip of height 1: a ramp, or a ramp with its last pixel
\* replaced
AnyStrip ==
    \E n \in 1..MaxStrip :
        /\ width = n /\ height = 1
        /\ \/ data = ramp(n)
           \/ \E e \in StripEnds : data = [ramp(n) EXCEPT ![n] = e]

\* two opaque colours and a transparent pixel that carries a colour
CleanPixels == {<<0, 0, 0, 255>>, <<200, 0, 0, 255>>, <<20, 0, 0, 0>>}

CleanInit ==
    /\ pc = "call"
    /\ \/ /\ fn = "autoClean"
          /\ AnyStrip \/ AnyImage(CleanPixels, 2..MaxSide)
          /\ NoCleanArgs
       \/ /\ fn = "suggestColorCount"
          /\ uniqueColors \in 0..MaxUnique
          /\ data = <<>> /\ width = 0 /\ height = 0
    /\ NoQuantArgs /\ NoRefineArgs /\ NoSnapArgs /\ NoMergeArgs
    /\ OctIdle /\ MedIdle /\ RefIdle /\ SnapIdle /\ NoResult /\ DetIdle
    /\ mergedAlloc = <<>> /\ cleanup = NoCleanup /\ HistIdle

\* what a call of autoClean leaves alone
notClean == <<callVars, octVars, medVars, refVars, mergedAlloc, histVars>>

\* a call of suggestColorCount by itself
SuggestCall ==
    /\ fn = "suggestColorCount" /\ pc = "call"
    /\ cleanup' = [cleanup EXCEPT !.targetColors = suggestColorCount(uniqueColors)]
    /\ pc' = "done"
    /\ UNCHANGED <<notClean, snapVars, detVars, outVars>>

\* Step 1: detect grid
CleanDetect ==
    /\ fn = "autoClean" /\ pc = "call"
    /\ detection' = detectGridSize(data, width, height)
    /\ pc' = "detected"
    /\ UNCHANGED <<notClean, snapVars, cleanup, outVars>>

\* Step 2: snap to grid with the detected grid size; snapToGrid may throw
CleanSnap ==
    /\ fn = "autoClean" /\ pc = "detected"
    /\ LET snapped == snapToGrid(data, width, height, detection.gridSize)
       IN  /\ snapData' = snapped.data
           /\ snapWidth' = snapped.width
           /\ snapHeight' = snapped.height
           /\ snapAlloc' = snapped.alloc
           /\ pc' = (IF snapped.threw THEN "threw" ELSE "snapped")
    /\ UNCHANGED <<notClean, detVars, cleanup, outVars>>

\* Step 3: count unique colors in the snapped result
CleanCount ==
    /\ fn = "autoClean" /\ pc = "snapped"
    /\ LET originalColorCount == Cardinality(DOMAIN extractColors(snapData))
       IN  cleanup' = [reduced |-> FALSE,
                       originalColorCount |-> originalColorCount,
                       reducedColorCount |-> originalColorCount,
                       targetColors |-> 0]
    /\ pc' = "counted"
    /\ UNCHANGED <<notClean, snapVars, detVars, outVars>>

\* originalColorCount <= 32: reduced stays null
CleanKeep ==
    /\ fn = "autoClean" /\ pc = "counted"
    /\ ~(cleanup.originalColorCount > 32)
    /\ pc' = "done"
    /\ UNCHANGED <<notClean, snapVars, detVars, cleanup, outVars>>

\* Step 4: quantize if too many colors
CleanQuantize ==
    /\ fn = "autoClean" /\ pc = "counted"
    /\ cleanup.originalColorCount > 32
    /\ LET target == suggestColorCount(cleanup.originalColorCount)
           quantized == octreeQuantize(snapData, snapWidth, snapHeight, target)
       IN  /\ palette' = quantized.palette
           /\ indexedData' = quantized.indexedData
           /\ remappedData' = quantized.remappedData
           /\ cleanup' = [cleanup EXCEPT
                             !.reduced = TRUE,
                             !.targetColors = target,
                             !.reducedColorCount = Len(quantized.palette)]
           /\ pc' = (IF quantized.threw THEN "threw" ELSE "done")
    /\ UNCHANGED <<notClean, snapVars, detVars>>

CleanNext ==
    \/ SuggestCall
    \/ CleanDetect
    \/ CleanSnap
    \/ CleanCount
    \/ CleanKeep
    \/ CleanQuantize

SpecClean == CleanInit /\ [][CleanNext]_vars

-----------------------------------------------------------------------------
(* Undo history (undo.ts) and the EditorStore that owns it                  *)

\* private maxEntries: number = 50
maxEntries == 50

\* the entry handed out as it is stored, without the deep clone; alloc is the
\* position of the stored entry whose arrays the returned entry refers to
storedEntry(h, i) == [some |-> TRUE, entry |-> h.entries[i], alloc |-> i]

\* cloneEntry of the stored entry at position i (1-based): new arrays, so the
\* returned entry refers to no stored one (alloc 0)
cloneEntry(h, i) ==
    [some |-> TRUE,
     entry |-> [label |-> h.entries[i].label,
                canvasSnapshot |->
                    [data |-> h.entries[i].canvasSnapshot.data,
                     width |-> h.entries[i].canvasSnapshot.width,
                     height |-> h.entries[i].canvasSnapshot.height],
                paletteSnapshot |-> h.entries[i].paletteSnapshot],
     alloc |-> 0]

\* the trim that keeps one entry more than maxEntries
trimLate(pushed) ==
    IF Len(pushed) > maxEntries + 1
    THEN [entries |-> SubSeq(pushed, Len(pushed) - maxEntries, Len(pushed)),
          currentIndex |-> maxEntries]
    ELSE [entries |-> pushed, currentIndex |-> Len(pushed) - 1]

\* Trim from the front if over maxEntries
trim(pushed) ==
    IF Len(pushed) > maxEntries
    THEN LET overflow == Len(pushed) - maxEntries
         IN  [entries |-> SubSeq(pushed, overflow + 1, Len(pushed)),
              currentIndex |-> (Len(pushed) - 1) - overflow]
    ELSE [entries |-> pushed, currentIndex |-> Len(pushed) - 1]

\* entries.slice(0, currentIndex + 1) without the slice: nothing is discarded
keepAll(h) == h.entries

\* this.entries.slice(0, this.currentIndex + 1)
keepToCurrent(h) == SubSeq(h.entries, 1, h.currentIndex + 1)

push(h, label, cv, pal) ==
    LET entry == [label |-> label,
                  canvasSnapshot |->
                      [data |-> cv.data, width |-> cv.width,
                       height |-> cv.height],
                  paletteSnapshot |-> pal]
    IN  trim(Append(keepToCurrent(h), entry))

canUndo(h) == h.currentIndex > 0

canRedo(h) == h.currentIndex < Len(h.entries) - 1

undo(h) ==
    IF ~canUndo(h) THEN [history |-> h, result |-> NoEntry]
    ELSE [history |-> [h EXCEPT !.currentIndex = @ - 1],
          result |-> cloneEntry(h, h.currentIndex)]

redo(h) ==
    IF ~canRedo(h) THEN [history |-> h, result |-> NoEntry]
    ELSE [history |-> [h EXCEPT !.currentIndex = @ + 1],
          result |-> cloneEntry(h, h.currentIndex + 2)]

clear(h) == [entries |-> <<>>, currentIndex |-> -1]

-----------------------------------------------------------------------------
(* The calls of HistoryManager *)

\* the number of entries of the history that a run may start with
Prefilled == 48

\* the number of push calls of a run
MaxCalls == 4

\* the canvas handed to the push labelled label: one pixel that tells it
HistCanvas(label) ==
    [data |-> <<<<label, 0, 0, 255>>>>, width |-> 1, height |-> 1]

\* the history after the pushes labelled 1..n on a new HistoryManager,
\* n <= maxEntries
filled(n) ==
    [entries |-> [k \in 1..n |->
                     [label |-> k, canvasSnapshot |-> HistCanvas(k),
                      paletteSnapshot |-> <<>>]],
     currentIndex |-> n - 1]

\* every variable of the engine calls is idle
EngineIdle ==
    /\ data = <<>> /\ width = 0 /\ height = 0
    /\ NoQuantArgs /\ NoRefineArgs /\ NoSnapArgs /\ NoMergeArgs /\ NoCleanArgs
    /\ OctIdle /\ MedIdle /\ RefIdle /\ SnapIdle /\ DetIdle
    /\ indexedData = <<>> /\ remappedData = <<>>
    /\ mergedAlloc = <<>> /\ cleanup = NoCleanup

engineVars ==
    <<callVars, octVars, medVars, refVars, snapVars, detVars, lateVars,
      indexedData, remappedData>>

\* a new HistoryManager, or one that took Prefilled pushes
HistInit ==
    /\ fn = "HistoryManager"
    /\ pc = "new"
    /\ history \in {NewHistory, filled(Prefilled)}
    /\ returned = NoEntry
    /\ canvas = NoCanvas
    /\ calls = 0
    /\ palette = <<>>
    /\ EngineIdle

\* push(label, canvas, palette); every push of a run has a label of its own
HistPush ==
    /\ fn = "HistoryManager"
    /\ calls < MaxCalls
    /\ LET label == Prefilled + calls + 1
       IN  history' = push(history, label, HistCanvas(label), <<>>)
    /\ returned' = NoEntry
    /\ calls' = calls + 1
    /\ pc' = "push"
    /\ UNCHANGED <<engineVars, canvas, palette>>

HistUndo ==
    /\ fn = "HistoryManager"
    /\ history' = undo(history).history
    /\ returned' = undo(history).result
    /\ pc' = "undo"
    /\ UNCHANGED <<engineVars, canvas, calls, palette>>

HistRedo ==
    /\ fn = "HistoryManager"
    /\ history' = redo(history).history
    /\ returned' = redo(history).result
    /\ pc' = "redo"
    /\ UNCHANGED <<engineVars, canvas, calls, palette>>

HistClear ==
    /\ fn = "HistoryManager"
    /\ history' = clear(history)
    /\ returned' = NoEntry
    /\ pc' = "clear"
    /\ UNCHANGED <<engineVars, canvas, calls, palette>>

\* the caller writes into the canvas data of the entry it was handed; the
\* write shows in the stored entry when both refer to the same array
HistWriteReturned ==
    /\ fn = "HistoryManager" /\ pc \in {"undo", "redo"}
    /\ returned.some
    /\ returned' = [returned EXCEPT
                       !.entry.canvasSnapshot.data = <<WrittenPixel>>]
    /\ history' = IF returned.alloc = 0 THEN history
                  ELSE [history EXCEPT
                           !.entries[returned.alloc].canvasSnapshot.data =
                               <<WrittenPixel>>]
    /\ pc' = "written"
    /\ UNCHANGED <<engineVars, canvas, calls, palette>>

HistNext ==
    \/ HistPush
    \/ HistUndo
    \/ HistRedo
    \/ HistClear
    \/ HistWriteReturned

SpecHistory == HistInit /\ [][HistNext]_vars

-----------------------------------------------------------------------------
(* The calls of EditorStore (the store that import.ts exports)              *)

\* the number of canvas-changing operations of a run
MaxOps == 6

\* the canvas and the palette that the v-th change leaves: they tell v, and
\* the canvas changes its width from one change to the next
EdCanvas(v) ==
    [some |-> TRUE, data |-> [p \in 1..(1 + (v % 2)) |-> <<v, 0, 0, 255>>],
     width |-> 1 + (v % 2), height |-> 1]

EdPalette(v) == <<<<v, 0, 0, 255>>>>

\* if (!this.canvas) return; this.history.push(label, this.canvas, this.palette)
pushHistory(h, label, cv, pal) ==
    IF ~cv.some THEN h ELSE push(h, label, cv, pal)

\* the canvas that undo() and redo() of the store build from an entry
canvasOf(entry) ==
    [some |-> TRUE, data |-> entry.canvasSnapshot.data,
     width |-> entry.canvasSnapshot.width,
     height |-> entry.canvasSnapshot.height]

\* new EditorStore(): no canvas, the empty palette, a new HistoryManager
EdInit ==
    /\ fn = "EditorStore"
    /\ pc = "new"
    /\ history = NewHistory
    /\ returned = NoEntry
    /\ canvas = NoCanvas
    /\ calls = 0
    /\ palette = <<>>
    /\ EngineIdle

\* handleImport: the working canvas of the loaded image
EdLoad ==
    /\ fn = "EditorStore" /\ pc = "new"
    /\ canvas' = EdCanvas(0)
    /\ pc' = "loaded"
    /\ UNCHANGED <<engineVars, history, returned, calls, palette>>

\* a canvas-changing operation: pushHistory(label) once, then the change of
\* the canvas and of the palette
EdOperation ==
    /\ fn = "EditorStore" /\ pc # "new"
    /\ calls < MaxOps
    /\ history' = pushHistory(history, calls + 1, canvas, palette)
    /\ canvas' = EdCanvas(calls + 1)
    /\ palette' = EdPalette(calls + 1)
    /\ calls' = calls + 1
    /\ pc' = "operation"
    /\ UNCHANGED <<engineVars, returned>>

\* the canvas and the palette after the store took the entry r from the history
EdRestore(r) ==
    /\ history' = r.history
    /\ returned' = r.result
    /\ canvas' = (IF r.result.some THEN canvasOf(r.result.entry) ELSE canvas)
    /\ palette' = (IF r.result.some THEN r.result.entry.paletteSnapshot
                   ELSE palette)
    /\ UNCHANGED <<engineVars, calls>>

\* EditorStore.undo()
EdUndo ==
    /\ fn = "EditorStore" /\ pc # "new"
    /\ EdRestore(undo(history))
    /\ pc' = "undo"

\* EditorStore.redo()
EdRedo ==
    /\ fn = "EditorStore" /\ pc # "new"
    /\ EdRestore(redo(history))
    /\ pc' = "redo"

EdNext ==
    \/ EdLoad
    \/ EdOperation
    \/ EdUndo
    \/ EdRedo

SpecEditor == EdInit /\ [][EdNext]_vars

-----------------------------------------------------------------------------
(* The calls of medianCutQuantize on buffers with one dominant colour *)

\* the length of the longer buffers
MaxHeavy == 6

\* three colours along the red channel
HeavyPixels == {<<0, 0, 0, 255>>, <<10, 0, 0, 255>>, <<200, 0, 0, 255>>}

\* buffers long enough for a colour that holds more than half of the pixels
\* beside two other colours
HeavyInit ==
    /\ fn = "medianCutQuantize"
    /\ pc = "call"
    /\ \E n \in (MaxPixels + 1)..MaxHeavy : data \in [1..n -> HeavyPixels]
    /\ width = Len(data)
    /\ height = 1
    /\ targetColors \in 0..MaxTarget
    /\ NoRefineArgs /\ NoSnapArgs
    /\ OctIdle /\ MedIdle /\ RefIdle /\ SnapIdle /\ NoResult /\ DetIdle
    /\ NoMergeArgs /\ LateIdle

SpecMedianHeavy == HeavyInit /\ [][MedNext]_vars

-----------------------------------------------------------------------------
(* The calls of octreeQuantize on two branches of three leaves *)

\* the largest target of these calls
MaxWideTarget == 5

\* two groups of three colours: the groups part at the root (bit 7 of red),
\* the colours of a group part at the last level only (bit 1)
WideColours ==
    <<<<0, 0, 0, 255>>, <<2, 0, 0, 255>>, <<0, 2, 0, 255>>,
      <<128, 0, 0, 255>>, <<130, 0, 0, 255>>, <<128, 2, 0, 255>>>>

\* the colours of WideColours whose positions are in S, in their order
RECURSIVE pick(_, _)
pick(S, k) ==
    IF k > Len(WideColours) THEN <<>>
    ELSE (IF k \in S THEN <<WideColours[k]>> ELSE <<>>) \o pick(S, k + 1)

\* a buffer of some of the six colours, one pixel each
OctWideInit ==
    /\ fn = "octreeQuantize"
    /\ pc = "call"
    /\ \E S \in SUBSET (1..Len(WideColours)) : S # {} /\ data = pick(S, 1)
    /\ width = Len(data)
    /\ height = 1
    /\ targetColors \in 0..MaxWideTarget
    /\ NoRefineArgs /\ NoSnapArgs
    /\ OctIdle /\ MedIdle /\ RefIdle /\ SnapIdle /\ NoResult /\ DetIdle
    /\ NoMergeArgs /\ LateIdle

SpecOctreeWide == OctWideInit /\ [][OctNext]_vars

-----------------------------------------------------------------------------
(* The pixel mapping of octreeQuantize on palettes of more than 256 entries *)

\* the numbers of colours of these calls, and how far the target exceeds them
LongMin == 250
LongMax == 260
LongSlack == 4

\* the three bits of channel ch (4 red, 2 green, 1 blue) that steer colour i
\* through the last three levels: colour i takes child (i \div 64) % 8, then
\* (i \div 8) % 8, then i % 8, so the colours come in the order of the walk
\* of assignPaletteIndices and colour i is palette entry i
steerByte(i, ch) ==
    8 * (((((i \div 64) % 8)) \div ch) % 2)
        + 4 * ((((i \div 8) % 8) \div ch) % 2)
        + 2 * (((i % 8) \div ch) % 2)

LongColour(i) == <<steerByte(i, 4), steerByte(i, 2), steerByte(i, 1), 255>>

\* the path of colour i from the root
LongPath(i) == <<0, 0, 0, 0, (i \div 64) % 8, (i \div 8) % 8, i % 8>>

\* the tree after Step 3 for the colours 0..n-1, one pixel each, when
\* targetColors >= n: insertion makes one leaf per colour, Phase A and Phase B
\* change nothing and assignPaletteIndices numbers the leaves in walk order
LongTree(n) ==
    LET nodes == {SubSeq(LongPath(i), 1, l) : i \in 0..(n - 1), l \in 0..7}
        colourOf(m) == m[5] * 64 + m[6] * 8 + m[7]
    IN  [m \in nodes |->
            IF Len(m) < OctreeLevels THEN createNode(Len(m))
            ELSE [rSum |-> LongColour(colourOf(m))[1],
                  gSum |-> LongColour(colourOf(m))[2],
                  bSum |-> LongColour(colourOf(m))[3],
                  pixelCount |-> 1,
                  paletteIndex |-> colourOf(m),
                  isLeaf |-> TRUE]]

\* octreeQuantize has built the palette of n colours and is about to map the
\* pixels
OctLongInit ==
    /\ fn = "octreeQuantize"
    /\ pc = "map"
    /\ \E n \in LongMin..LongMax :
          /\ data = [p \in 1..n |-> LongColour(p - 1)]
          /\ tree = LongTree(n)
          /\ palette = [k \in 1..n |-> LongColour(k - 1)]
          /\ leafCount = n
          /\ targetColors \in n..(n + LongSlack)
    /\ width = Len(data)
    /\ height = 1
    /\ exitB = "notEntered"
    /\ indexedData = <<>> /\ remappedData = <<>>
    /\ NoRefineArgs /\ NoSnapArgs
    /\ MedIdle /\ RefIdle /\ SnapIdle /\ DetIdle
    /\ NoMergeArgs /\ LateIdle

SpecOctreeLong == OctLongInit /\ [][OctMapPixels]_vars

-----------------------------------------------------------------------------
(* Properties of the quantizers *)

\* the palette of the octree call is final from the mapping step on
OctPaletteBuilt ==
    fn = "octreeQuantize" /\ targetColors >= 1 /\ pc \in {"map", "done", "threw"}

\* C1: for every buffer and every targetColors K >= 1 the palette that
\* octreeQuantize returns has at most K entries and at most as many entries as
\* the buffer has distinct opaque RGB colours, whichever of Phase A and
\* Phase B reduced the tree.
C1_OctreePaletteBounded ==
    OctPaletteBuilt =>
        /\ Len(palette) <= targetColors
        /\ Len(palette) <= Cardinality(DistinctOpaque(data))

\* a call that Phase B reduced, by absorption, to exactly K entries
C1_ReducedByPhaseB ==
    /\ OctPaletteBuilt /\ pc = "done"
    /\ exitB = "effective"
    /\ Len(palette) = targetColors
    /\ Len(palette) < Cardinality(DistinctOpaque(data))

\* C3: after Phase A and Phase B the tree walk of every opaque pixel ends at
\* a node whose paletteIndex was assigned (0 <= paletteIndex < palette.length),
\* never at the unassigned index -1, and the mapping step does not throw.
C3_WalkEndsAtPaletteEntry ==
    OctPaletteBuilt =>
        /\ pc # "threw"
        /\ \A p \in DOMAIN data :
               Opaque(data[p]) =>
                   walkIndex(tree, data[p]) \in 0..(Len(palette) - 1)

\* the walk of some opaque pixel stops at an interior node whose child on the
\* pixel's path was absorbed
C3_WalkStopsAtPrunedChild ==
    /\ OctPaletteBuilt /\ pc = "done"
    /\ \E p \in DOMAIN data :
           /\ Opaque(data[p])
           /\ ~tree[walk(tree, <<>>, 0, data[p][1], data[p][2],
                         data[p][3])].isLeaf

\* C5: for a buffer with at least one opaque pixel and K >= 1, medianCutQuantize
\* returns exactly min(K, number of distinct opaque RGB colours) palette
\* entries, and the split loop is left with exactly that many buckets.
C5_MedianCutExactSize ==
    (fn = "medianCutQuantize" /\ targetColors >= 1
        /\ DistinctOpaque(data) # {}) =>
        /\ pc = "palette" =>
               Len(buckets) = MinInt(targetColors,
                                     Cardinality(DistinctOpaque(data)))
        /\ pc \in {"map", "done"} =>
               Len(palette) = MinInt(targetColors,
                                     Cardinality(DistinctOpaque(data)))

\* a call that split twice and stopped at K = 3 with a fourth colour left over
C5_SplitToTarget ==
    /\ fn = "medianCutQuantize" /\ pc = "done"
    /\ targetColors = 3
    /\ Len(palette) = 3
    /\ Cardinality(DistinctOpaque(data)) = 4

Quantizers == {"octreeQuantize", "medianCutQuantize", "refineWithKMeans"}

\* C2: in the result of octreeQuantize, medianCutQuantize and refineWithKMeans,
\* for any palette size and any initial palette alpha, every pixel whose input
\* alpha is not 0 has an indexedData value that is a valid palette offset and
\* remappedData bytes equal to palette[indexedData[p]].  (Stated for the
\* calls that return a palette entry at all.)
C2_IndexedPixelEqualsPaletteEntry ==
    (fn \in Quantizers /\ pc = "done" /\ Len(palette) >= 1) =>
        \A p \in DOMAIN data :
            data[p][4] # 0 =>
                /\ indexedData[p] \in 0..(Len(palette) - 1)
                /\ remappedData[p] = palette[indexedData[p] + 1]

\* RGB bytes that an alpha-0 pixel may carry instead of its own
AltTransparent == {<<255, 255, 255, 0>>, <<2, 0, 0, 0>>}

RECURSIVE TransparentVariants(_, _)
\* the buffers that differ from d in the RGB bytes of alpha-0 pixels only
TransparentVariants(d, p) ==
    IF p > Len(d) THEN {d}
    ELSE IF d[p][4] # 0 THEN TransparentVariants(d, p + 1)
    ELSE UNION {TransparentVariants([d EXCEPT ![p] = t], p + 1) :
                   t \in {d[p]} \cup AltTransparent}

-----------------------------------------------------------------------------
(* Properties of the snapper *)

\* the block that pixel (x, y) of the source lies in starts at this pixel
blockOrigin(x, y, G) == <<(x \div G) * G, (y \div G) * G>>

\* the source is a logical image whose pixels were replicated into solid
\* G x G blocks
IsCleanGrid(d, w, h, G) ==
    /\ w % G = 0 /\ h % G = 0
    /\ \A x \in 0..(w - 1), y \in 0..(h - 1) :
           getPixel(d, w, x, y) =
               getPixel(d, w, blockOrigin(x, y, G)[1], blockOrigin(x, y, G)[2])

\* the logical image of a clean grid: the first pixel of every block
logicalImage(d, w, h, G) ==
    [o \in 1..((w \div G) * (h \div G)) |->
        getPixel(d, w, ((o - 1) % (w \div G)) * G, ((o - 1) \div (w \div G)) * G)]

\* C6: snapToGrid with gridSize G >= 1 applied to a logical image (any width
\* and height >= 1, any RGBA values) replicated into solid G x G blocks
\* returns exactly the logical image: same width, same height, equal bytes.
C6_CleanGridRoundTrip ==
    (fn = "snapToGrid" /\ pc \in {"done", "threw"} /\ gridSize >= 1
        /\ IsCleanGrid(data, width, height, gridSize)) =>
        /\ pc = "done"
        /\ snapWidth = width \div gridSize
        /\ snapHeight = height \div gridSize
        /\ snapData = logicalImage(data, width, height, gridSize)

\* a clean grid of blocks of side 2 or 3 snapped to a 2 x 2 logical image that
\* holds opaque, half transparent and transparent pixels
C6_CleanGridSnapped ==
    /\ fn = "snapToGrid" /\ pc = "done" /\ gridSize >= 2
    /\ IsCleanGrid(data, width, height, gridSize)
    /\ snapWidth = 2 /\ snapHeight = 2
    /\ \E o1, o2, o3 \in DOMAIN snapData :
           snapData[o1][4] = 255 /\ snapData[o2][4] = 100 /\ snapData[o3][4] = 0

\* the source positions of block (lx, ly)
blockPositions(G, lx, ly) ==
    (lx * G..(lx * G + G - 1)) \X (ly * G..(ly * G + G - 1))

RECURSIVE alphaSum(_, _, _)
\* the sum of the alphas of the source pixels at the positions S
alphaSum(d, w, S) ==
    IF S = {} THEN 0
    ELSE LET q == CHOOSE q \in S : TRUE
         IN  getPixel(d, w, q[1], q[2])[4] + alphaSum(d, w, S \ {q})

\* the positions of a block whose pixel has the given RGB
positionsWith(d, w, S, rgb) ==
    {q \in S : RGBOf(getPixel(d, w, q[1], q[2])) = rgb}

\* C7: for gridSize >= 2, when strictly more than half of the pixels of a block
\* share one RGB value the output pixel of the block has that RGB, whatever
\* the other pixels are, and its alpha is the rounded mean alpha of the
\* pixels with that RGB; when no RGB value covers more than half of the block
\* (exactly half included) the output is the weighted-centre average.
C7_MajorityVote ==
    (fn = "snapToGrid" /\ pc = "done" /\ gridSize >= 2) =>
        \A lx \in 0..(snapWidth - 1), ly \in 0..(snapHeight - 1) :
            LET S == blockPositions(gridSize, lx, ly)
                out == getPixel(snapData, snapWidth, lx, ly)
                rgbs == {RGBOf(getPixel(data, width, q[1], q[2])) : q \in S}
                n(rgb) == Cardinality(positionsWith(data, width, S, rgb))
            IN  /\ \A rgb \in rgbs :
                       2 * n(rgb) > gridSize * gridSize =>
                           /\ RGBOf(out) = rgb
                           /\ out[4] =
                                  RoundDiv(alphaSum(data, width,
                                               positionsWith(data, width, S,
                                                             rgb)),
                                           n(rgb))
                /\ (\A rgb \in rgbs : 2 * n(rgb) <= gridSize * gridSize) =>
                       out = weightedCentre(
                                 blockPixels(data, width, height, gridSize,
                                             lx, ly), gridSize)

\* a 3 x 3 block in which five pixels share an RGB with two different alphas
\* and the four others differ
C7_FiveOfNine ==
    /\ fn = "snapToGrid" /\ pc = "done" /\ gridSize = 3
    /\ width = 3 /\ height = 3
    /\ LET S == blockPositions(3, 0, 0)
           red == positionsWith(data, width, S, <<200, 0, 0>>)
       IN  /\ Cardinality(red) = 5
           /\ \E q1, q2 \in red :
                  getPixel(data, width, q1[1], q1[2])[4] = 255
                      /\ getPixel(data, width, q2[1], q2[2])[4] = 100

\* the source positions outside every block: the remainder columns and rows
remainderPositions(w, h, G) ==
    {q \in (0..(w - 1)) \X (0..(h - 1)) :
        q[1] >= (w \div G) * G \/ q[2] >= (h \div G) * G}

C9_GridSizeOneCopies ==
    /\ [](fn = "snapToGrid" /\ pc = "done" /\ gridSize = 1 =>
             snapWidth = width /\ snapHeight = height /\ snapData = data)
    /\ [][(gridSize = 1 /\ pc = "done" /\ pc' = "written") =>
             (data' = data \/ snapData' = snapData)]_vars

\* after the copy of a 2 x 2 source the caller wrote into one of the buffers
C9_WrittenAfterCopy ==
    /\ fn = "snapToGrid" /\ pc = "written" /\ gridSize = 1
    /\ width = 2 /\ height = 2
    /\ snapData # data

\* the output pixels whose block holds source pixel p and an opaque pixel
blocksWithOpaque(d, w, h, G, p) ==
    LET x == (p - 1) % w
        y == (p - 1) \div w
        S == blockPositions(G, x \div G, y \div G)
    IN  IF x \div G < w \div G /\ y \div G < h \div G
           /\ \E q \in S : getPixel(d, w, q[1], q[2])[4] # 0
        THEN {(y \div G) * (w \div G) + (x \div G) + 1}
        ELSE {}

\* C10: for every gridSize an alpha-0 source pixel never influences the RGB
\* that snapToGrid outputs for a block that also contains opaque pixels, and
\* wherever an output pixel has alpha 0 its RGB is (0,0,0), gridSize = 1
\* included.
C10_SnapIgnoresTransparent ==
    (fn = "snapToGrid" /\ pc = "done") =>
        /\ \A o \in DOMAIN snapData :
               snapData[o][4] = 0 => RGBOf(snapData[o]) = <<0, 0, 0>>
        /\ \A p \in DOMAIN data :
               data[p][4] = 0 =>
                   \A t \in AltTransparent :
                       LET r == snapToGrid([data EXCEPT ![p] = t], width,
                                           height, gridSize)
                       IN  \A o \in blocksWithOpaque(data, width, height,
                                                     gridSize, p) :
                               RGBOf(r.data[o]) = RGBOf(snapData[o])

-----------------------------------------------------------------------------
(* Properties of the grid detector *)

\* the adjacent blocks of a clean grid of block side G differ in their RGB
AdjacentBlocksDiffer(d, w, h, G) ==
    \A x \in 0..(w - 1), y \in 0..(h - 1) :
        /\ x + G < w =>
               RGBOf(getPixel(d, w, x, y)) # RGBOf(getPixel(d, w, x + G, y))
        /\ y + G < h =>
               RGBOf(getPixel(d, w, x, y)) # RGBOf(getPixel(d, w, x, y + G))

\* C11: for every image built as an L x L grid (L >= 2) of solid G x G blocks
\* (G >= 1) whose adjacent blocks have different colours, detectGridSize
\* returns gridSize = G, logicalWidth = L and logicalHeight = L.
C11_GridRecovered ==
    (fn = "detectGridSize" /\ pc = "done") =>
        \A G \in 1..MaxGrid :
            (/\ width = height /\ width % G = 0 /\ width \div G >= 2
             /\ IsCleanGrid(data, width, height, G)
             /\ AdjacentBlocksDiffer(data, width, height, G)) =>
                /\ detection.gridSize = G
                /\ detection.logicalWidth = width \div G
                /\ detection.logicalHeight = height \div G

\* C12: for every image of width >= 1 and height >= 1, uniform images
\* included, detectGridSize returns a well-formed result: gridSize is an
\* integer >= 1, there are one to three candidates in non-increasing order of
\* score, gridSize is the size of the first candidate, 0 <= confidence <= 1,
\* logicalWidth = floor(width / gridSize), logicalHeight = floor(height /
\* gridSize), and when width <= 1 or height <= 1 the result is gridSize 1
\* with confidence 1.
C12_DetectionWellFormed ==
    (fn = "detectGridSize" /\ pc = "done") =>
        LET c == detection.candidates
        IN  /\ detection.gridSize \in Nat /\ detection.gridSize >= 1
            /\ Len(c) >= 1 /\ Len(c) <= 3
            /\ \A k \in 1..(Len(c) - 1) :
                   c[k].score.num * c[k + 1].score.den
                       >= c[k + 1].score.num * c[k].score.den
            /\ detection.gridSize = c[1].size
            /\ detection.confidence.den > 0
            /\ detection.confidence.num >= 0
            /\ detection.confidence.num <= detection.confidence.den
            /\ detection.logicalWidth = width \div detection.gridSize
            /\ detection.logicalHeight = height \div detection.gridSize
            /\ (width <= 1 \/ height <= 1) =>
                   /\ detection.gridSize = 1
                   /\ detection.confidence.num = detection.confidence.den

\* a uniform 3 x 3 image: zero total gradient, every edge score 0
C12_UniformDetected ==
    /\ fn = "detectGridSize" /\ pc = "done"
    /\ width = 3 /\ height = 3
    /\ \A p \in DOMAIN data : data[p] = data[1]
    /\ Len(detection.candidates) = 3

-----------------------------------------------------------------------------
(* Properties of the remapper and of the palette merge *)

\* C13: remapping is idempotent: for every buffer and every palette P,
\* duplicates and any length included, remapToPalette(remapToPalette(img, P),
\* P) is byte-equal to remapToPalette(img, P).
C13_RemapIdempotent ==
    [][(fn = "remapToPalette" /\ pc = "done" /\ pc' = "again") =>
           remappedData' = remappedData]_vars

\* a buffer whose opaque and half transparent pixels moved to entries of a
\* palette of two different colours was remapped a second time
C13_RemappedTwice ==
    /\ fn = "remapToPalette" /\ pc = "again"
    /\ Len(initialPalette) = 2
    /\ RGBOf(initialPalette[1]) # RGBOf(initialPalette[2])
    /\ \E p, q \in DOMAIN data :
           /\ data[p][4] = 255 /\ data[q][4] = 128
           /\ RGBOf(remappedData[p]) # RGBOf(data[p])
           /\ RGBOf(remappedData[p]) # RGBOf(remappedData[q])

\* entry idx of the palette is at minimal distance from the pixel, and is the
\* first such entry
isNearestEntry(px, pal, idx) ==
    /\ \A k \in DOMAIN pal :
           deltaE(labOf(px), labOf(pal[idx])) <= deltaE(labOf(px), labOf(pal[k]))
    /\ \A k \in 1..(idx - 1) :
           deltaE(labOf(px), labOf(pal[idx])) < deltaE(labOf(px), labOf(pal[k]))

\* the pixels with alpha # 0 carry the RGB of their nearest palette entry
NearestRGBWritten ==
    \A p \in DOMAIN data :
        data[p][4] # 0 =>
            \E idx \in DOMAIN initialPalette :
                /\ isNearestEntry(data[p], initialPalette, idx)
                /\ RGBOf(remappedData[p]) = RGBOf(initialPalette[idx])

\* C14 as stated: remapToPalette returns a buffer of the same length in
\* which, for every palette, every pixel keeps its input alpha, and for a
\* non-empty palette every pixel with alpha # 0 has the RGB of the nearest
\* palette entry (the lowest index on ties), whatever that entry's alpha.
C14_RemapKeepsAlpha ==
    (fn = "remapToPalette" /\ pc = "done") =>
        /\ Len(remappedData) = Len(data)
        /\ \A p \in DOMAIN data : remappedData[p][4] = data[p][4]
        /\ Len(initialPalette) > 0 => NearestRGBWritten

\* C14 amended: the alpha is kept for a non-empty palette; for the empty
\* palette the returned buffer is all zero, alpha included.
C14_RemapKeepsAlphaUnlessEmpty ==
    (fn = "remapToPalette" /\ pc = "done") =>
        /\ Len(remappedData) = Len(data)
        /\ Len(initialPalette) > 0 =>
               /\ \A p \in DOMAIN data : remappedData[p][4] = data[p][4]
               /\ NearestRGBWritten
        /\ Len(initialPalette) = 0 =>
               \A p \in DOMAIN data : remappedData[p] = <<0, 0, 0, 0>>

\* a half transparent pixel remapped to a palette entry of another alpha
C14_HalfTransparentRemapped ==
    /\ fn = "remapToPalette" /\ pc = "done"
    /\ \E p \in DOMAIN data, idx \in DOMAIN initialPalette :
           /\ data[p][4] = 128
           /\ initialPalette[idx][4] = 200
           /\ RGBOf(remappedData[p]) = RGBOf(initialPalette[idx])
           /\ remappedData[p][4] = 128

\* an index outside [0, palette.length)
OutOfRange(i, pal) == i < 0 \/ i >= Len(pal)

\* C15: mergePaletteColors(palette, i, j) raises a RangeError and returns no
\* palette whenever i or j lies outside [0, palette.length), for every
\* combination of i and j, i = j included.
C15_MergeRejectsOutOfRange ==
    (fn = "mergePaletteColors" /\ pc \in {"done", "threw"}
        /\ (OutOfRange(indexA, initialPalette)
                \/ OutOfRange(indexB, initialPalette))) =>
        pc = "threw" /\ palette = <<>>

\* the input index that entry k of the result of a merge came from
mergeOrigin(k, iB) == IF k - 1 < iB THEN k - 1 ELSE k

\* C16: for in-range i # j the result has one entry less: entry j is removed,
\* the entry that was at i holds per channel the average of entries i and j
\* rounded to the nearest integer, halves up, and the other entries keep their
\* values and order; for in-range i = j the result equals the input; the call
\* leaves the input palette as it was, and the result shares no entry array
\* with it: a later write to an entry of one does not show in the other.
C16_MergeAverages ==
    /\ [](fn = "mergePaletteColors" /\ pc = "done"
             /\ ~OutOfRange(indexA, initialPalette)
             /\ ~OutOfRange(indexB, initialPalette) =>
             /\ indexA = indexB => palette = initialPalette
             /\ indexA # indexB =>
                    /\ Len(palette) = Len(initialPalette) - 1
                    /\ \A k \in DOMAIN palette :
                           LET i == mergeOrigin(k, indexB)
                               a == initialPalette[indexA + 1]
                               b == initialPalette[indexB + 1]
                           IN  IF i = indexA
                               THEN \A ch \in 1..4 :
                                        /\ 2 * palette[k][ch] >= a[ch] + b[ch]
                                        /\ 2 * palette[k][ch] <= a[ch] + b[ch] + 1
                               ELSE palette[k] = initialPalette[i + 1])
    /\ [][fn = "mergePaletteColors" /\ pc = "call" =>
              initialPalette' = initialPalette]_vars
    /\ [][(fn = "mergePaletteColors" /\ pc = "done" /\ pc' = "written") =>
              (palette' = palette \/ initialPalette' = initialPalette)]_vars

\* entries 0 and 2 of a palette of three merged (an odd channel sum among
\* them), and an entry array written afterwards
C16_MergedThenWritten ==
    /\ fn = "mergePaletteColors" /\ pc = "written"
    /\ indexA = 2 /\ indexB = 0
    /\ Len(palette) = 2
    /\ \E c \in MergeColors : palette[2] = mergedColor(c, <<0, 0, 0, 255>>)
                                  /\ palette[2] # mergedFloor(c, <<0, 0, 0, 255>>)

-----------------------------------------------------------------------------
(* Properties of the refiner *)

\* for every pixel the index (from 0) of its nearest entry of the palette,
\* -1 for a transparent pixel
nearestEntries(d, pal) ==
    Eval(paletteLabsOf(pal), LAMBDA paletteLabs :
         [p \in DOMAIN d |->
             IF d[p][4] = 0 THEN -1
             ELSE nearestPaletteIndex(d[p][1], d[p][2], d[p][3], paletteLabs)])

\* the opaque pixels whose nearest entry is entry c (from 1)
nearestCluster(near, c) == {p \in DOMAIN near : near[p] = c - 1}

RECURSIVE channelSum(_, _, _)
\* the sum of channel ch over the pixels at the positions S
channelSum(d, S, ch) ==
    IF S = {} THEN 0
    ELSE LET p == CHOOSE p \in S : TRUE
         IN  d[p][ch] + channelSum(d, S \ {p}, ch)

\* the rounded mean RGB of the pixels at the positions S
meanRGB(d, S) ==
    <<RoundDiv(channelSum(d, S, 1), Cardinality(S)),
      RoundDiv(channelSum(d, S, 2), Cardinality(S)),
      RoundDiv(channelSum(d, S, 3), Cardinality(S))>>

\* an update step of the k-means loop was taken
UpdateStepTaken ==
    fn = "refineWithKMeans" /\ pc = "loop" /\ iter < maxIterations
        /\ pc' \in {"loop", "final"}

\* C17: refineWithKMeans never drops a palette slot: the returned palette has
\* exactly initialPalette.length entries, and in each update step an entry
\* whose cluster received no pixel keeps its previous colour while an entry
\* with assigned pixels becomes the rounded mean RGB of exactly those pixels,
\* a pixel being assigned to its nearest entry.
C17_NoSlotDropped ==
    /\ [](fn = "refineWithKMeans" /\ pc = "done" =>
              Len(palette) = Len(initialPalette))
    /\ [][UpdateStepTaken =>
              /\ Len(palette') = Len(palette)
              /\ Eval(nearestEntries(data, palette), LAMBDA near :
                      \A c \in DOMAIN palette :
                          LET S == nearestCluster(near, c)
                          IN  IF S = {} THEN palette'[c] = palette[c]
                              ELSE RGBOf(palette'[c]) = meanRGB(data, S))]_vars

\* every entry of the palette that is the nearest entry of an opaque pixel is
\* the rounded mean RGB of the opaque pixels nearest to it
IsFixedPoint(d, pal) ==
    Eval(nearestEntries(d, pal), LAMBDA near :
         \A c \in DOMAIN pal :
             LET S == nearestCluster(near, c)
             IN  S # {} => RGBOf(pal[c]) = meanRGB(d, S))

\* C18: non-divergence: when every entry of the initial palette is a fixed
\* point of the update step, refineWithKMeans returns a palette in which no
\* RGB channel of any entry differs from the initial palette by more than 1.
C18_FixedPointKept ==
    (fn = "refineWithKMeans" /\ pc = "done"
        /\ IsFixedPoint(data, initialPalette)) =>
        /\ Len(palette) = Len(initialPalette)
        /\ \A c \in DOMAIN initialPalette :
               \A ch \in 1..3 : Abs(palette[c][ch] - initialPalette[c][ch]) <= 1

-----------------------------------------------------------------------------
(* Degenerate input *)

\* the result is the empty palette with buffers of the lengths of the call
TrivialResult ==
    /\ pc = "done"
    /\ palette = <<>>
    /\ Len(indexedData) = width * height
    /\ Len(remappedData) = width * height

\* C19: degenerate input is never an error: for an all-transparent buffer
\* octreeQuantize and medianCutQuantize return an empty palette, an
\* indexedData of width * height elements and an all-transparent remappedData
\* of width * height pixels; refineWithKMeans called with an empty palette
\* returns an empty palette and buffers of those lengths, for any pixel data.
C19_DegenerateInputReturns ==
    /\ (fn \in {"octreeQuantize", "medianCutQuantize"}
            /\ pc \in {"done", "threw"}
            /\ \A p \in DOMAIN data : data[p][4] = 0) =>
           /\ TrivialResult
           /\ \A p \in DOMAIN remappedData : remappedData[p] = <<0, 0, 0, 0>>
    /\ (fn = "refineWithKMeans" /\ pc \in {"done", "threw"}
            /\ initialPalette = <<>>) =>
           TrivialResult

\* octreeQuantize returned for two transparent pixels that carry a colour and
\* a target of two colours
C19_AllTransparentQuantized ==
    /\ fn = "octreeQuantize" /\ pc = "done"
    /\ targetColors = 2
    /\ Len(data) = 2
    /\ \A p \in DOMAIN data : data[p][4] = 0 /\ RGBOf(data[p]) # <<0, 0, 0>>

-----------------------------------------------------------------------------
(* Properties of the cleanup pipeline *)

\* the target of the heuristic as a table of ranges
claimedTarget(n) ==
    CASE n < 16 -> n
      [] n >= 16 /\ n <= 64 -> 16
      [] n >= 65 /\ n <= 256 -> 24
      [] n > 256 -> 32

\* C20: autoClean counts the distinct opaque colours n of the snapped image
\* and quantizes (reduced != null) exactly when n > 32, with octreeQuantize on
\* the snapped image and the target suggestColorCount(n), which is n for
\* n < 16, 16 for 16..64, 24 for 65..256 and 32 above 256; when n <= 32,
\* reduced is null and reducedColorCount = originalColorCount = n; when
\* reduced != null, reducedColorCount = reduced.palette.length and is at most
\* suggestColorCount(n).
C20_AutoCleanReduces ==
    /\ (fn = "suggestColorCount" /\ pc = "done") =>
           cleanup.targetColors = claimedTarget(uniqueColors)
    /\ (fn = "autoClean" /\ pc = "done") =>
           LET n == Cardinality(DistinctOpaque(snapData))
           IN  /\ cleanup.originalColorCount = n
               /\ cleanup.reduced <=> n > 32
               /\ ~cleanup.reduced =>
                      cleanup.reducedColorCount = n /\ NoResult
               /\ cleanup.reduced =>
                      /\ LET q == octreeQuantize(snapData, snapWidth,
                                                 snapHeight, claimedTarget(n))
                         IN  /\ palette = q.palette
                             /\ remappedData = q.remappedData
                      /\ cleanup.reducedColorCount = Len(palette)
                      /\ Len(palette) <= claimedTarget(n)

\* autoClean reduced a snapped strip of 33 opaque colours and a transparent
\* pixel to fewer colours
C20_StripReduced ==
    /\ fn = "autoClean" /\ pc = "done"
    /\ cleanup.reduced
    /\ cleanup.originalColorCount = 33
    /\ Len(snapData) = 34
    /\ cleanup.reducedColorCount < 33

-----------------------------------------------------------------------------
(* Properties of the undo history *)

\* the step is a call of push
PushStep == fn = "HistoryManager" /\ pc' = "push" /\ calls' = calls + 1

\* C21: the fork rule: a push made while entries exist after the current one
\* (after one or more undos) discards exactly those entries: afterwards
\* canRedo is false and redo() returns null, the entries up to and including
\* the previously current one are retained in their order, the pushed entry
\* is the current one, and the next undo() returns the entry that was current
\* before the push.
C21_PushAfterUndoForks ==
    [][(PushStep /\ canRedo(history)) =>
          LET cur == history.currentIndex + 1
          IN  /\ ~canRedo(history')
              /\ redo(history').result = NoEntry
              /\ redo(history').history = history'
              /\ Len(history'.entries) = cur + 1
              /\ SubSeq(history'.entries, 1, cur)
                     = SubSeq(history.entries, 1, cur)
              /\ history'.currentIndex = cur
              /\ history'.entries[cur + 1].label = Prefilled + calls'
              /\ undo(history').result.some
              /\ undo(history').result.entry = history.entries[cur]]_vars

\* a push discarded the entries of two earlier pushes: the labels of the last
\* two entries are three apart
C21_ForkedAfterTwoUndos ==
    /\ fn = "HistoryManager" /\ pc = "push"
    /\ Len(history.entries) >= 2
    /\ history.entries[Len(history.entries)].label
           = history.entries[Len(history.entries) - 1].label + 3

\* C22: capacity: after any sequence of push, undo, redo and clear the
\* manager holds at most 50 entries; a push that would make 51 drops the
\* oldest entry, keeps the 50 most recent in order and leaves the newly pushed
\* entry as the current one.
C22_AtMostFiftyEntries ==
    /\ [](fn = "HistoryManager" => Len(history.entries) <= 50)
    /\ [][(PushStep /\ history.currentIndex + 1 = 50) =>
             /\ Len(history'.entries) = 50
             /\ SubSeq(history'.entries, 1, 49)
                    = SubSeq(history.entries, 2, 50)
             /\ history'.entries[50].label = Prefilled + calls'
             /\ history'.currentIndex = 49]_vars

\* two pushes each dropped the oldest entry: the entries are those labelled
\* 3..52
C22_OldestTwoDropped ==
    /\ fn = "HistoryManager" /\ pc = "push"
    /\ Len(history.entries) = 50
    /\ history.entries[1].label = 3
    /\ history.entries[50].label = 52

\* the entry at the current position
currentEntry(h) == h.entries[h.currentIndex + 1]

\* what a step that calls undo (by = -1) or redo (by = 1) does when the
\* call can be made, and when it cannot
MovesOrReturnsNull(can, by) ==
    IF can
    THEN /\ history'.entries = history.entries
         /\ history'.currentIndex = history.currentIndex + by
         /\ returned'.some
         /\ returned'.entry = currentEntry(history')
         /\ returned'.alloc = 0
    ELSE /\ returned' = NoEntry
         /\ history' = history

\* C24: the position invariant: after any sequence of push, undo, redo and
\* clear, currentIndex = -1 exactly when there are no entries and otherwise
\* 0 <= currentIndex < number of entries; canUndo is true exactly when an
\* entry exists before the current one and canRedo exactly when one exists
\* after it; undo() (redo()) returns null and leaves entries and position
\* unchanged exactly when canUndo (canRedo) is false, and otherwise moves the
\* position by one and returns a copy of the entry at the new position: a
\* write into the returned entry leaves the history as it is.
C24_PositionInvariant ==
    /\ [](fn = "HistoryManager" =>
             /\ history.currentIndex = -1 <=> history.entries = <<>>
             /\ history.entries # <<>> =>
                    /\ 0 <= history.currentIndex
                    /\ history.currentIndex < Len(history.entries)
             /\ canUndo(history) <=>
                    \E i \in DOMAIN history.entries :
                        i < history.currentIndex + 1
             /\ canRedo(history) <=>
                    \E i \in DOMAIN history.entries :
                        i > history.currentIndex + 1)
    /\ [][(fn = "HistoryManager" /\ pc' = "undo") =>
              MovesOrReturnsNull(canUndo(history), -1)]_vars
    /\ [][(fn = "HistoryManager" /\ pc' = "redo") =>
              MovesOrReturnsNull(canRedo(history), 1)]_vars
    /\ [][(fn = "HistoryManager" /\ pc' = "written") =>
              history' = history]_vars

\* undo or redo returned an entry from the middle of the history, and the
\* caller wrote into it
C24_ReturnedThenWritten ==
    /\ fn = "HistoryManager" /\ pc = "written"
    /\ canUndo(history) /\ canRedo(history)
    /\ returned.some
    /\ returned.entry.label = currentEntry(history).label
    /\ returned.entry.canvasSnapshot.data
           # currentEntry(history).canvasSnapshot.data

\* C23: editor undo semantics: every canvas-changing operation calls
\* pushHistory once immediately before it changes the canvas or the palette,
\* and each operation is one undo step: a single undo() issued after an
\* operation restores the canvas (data, width, height) and the palette to
\* exactly the state captured by that operation's pushHistory call (the entry
\* that is current when the operation is done), for the first operation after
\* an image is loaded as well as for every later one.
C23_UndoRestoresSnapshot ==
    [][(fn = "EditorStore" /\ pc = "operation" /\ pc' = "undo") =>
          /\ canvas' = canvasOf(currentEntry(history))
          /\ palette' = currentEntry(history).paletteSnapshot]_vars

-----------------------------------------------------------------------------
(* Properties of the octree *)

\* C25: octreeQuantize keys its tree on all 8 bit planes of each channel, so
\* that before reduction two opaque pixels are accumulated in the same leaf
\* only if their RGB values are identical (there are as many leaves as
\* distinct opaque colours); consequently, when targetColors is at least the
\* number of distinct opaque colours, every distinct colour has its own
\* palette entry equal to that colour.
C25_OneLeafPerColour ==
    /\ (fn = "octreeQuantize" /\ pc = "phaseA") =>
           leafCount = Cardinality(DistinctOpaque(data))
    /\ (fn = "octreeQuantize" /\ pc = "done"
            /\ targetColors >= Cardinality(DistinctOpaque(data))
            /\ targetColors > 0) =>
           \A c \in DistinctOpaque(data) :
               \E i \in DOMAIN palette : palette[i] = <<c[1], c[2], c[3], 255>>

\* C27: whenever the Phase B absorption loop is left (because the
\* palette-entry count reached the target, because no interior node with two
\* or more children remains, or because the loop condition fails), the
\* leafCount counter equals the true palette-entry count
\* countPaletteEntries(root).
C27_LeafCountInSync ==
    (fn = "octreeQuantize" /\ pc = "palette") =>
        leafCount = countPaletteEntries(tree, <<>>)

\* the opaque pixels of the input whose indexedData value is k
pixelsOfEntry(k) ==
    {p \in 1..Len(data) : Opaque(data[p]) /\ indexedData[p] = k}

\* C28: at the end of octreeQuantize every opaque input pixel is accounted
\* for in exactly one palette-bearing node, so that each palette entry
\* equals, with alpha 255, the rounded mean RGB of exactly those opaque input
\* pixels whose indexedData value is that entry.
C28_OctreeConservation ==
    (fn = "octreeQuantize" /\ pc = "done" /\ targetColors > 0) =>
        /\ \A p \in 1..Len(data) :
               Opaque(data[p]) => indexedData[p] < Len(palette)
        /\ \A k \in 1..Len(palette) :
               /\ pixelsOfEntry(k - 1) # {}
               /\ palette[k] = meanRGB(data, pixelsOfEntry(k - 1)) \o <<255>>

-----------------------------------------------------------------------------
(* Properties of the detected grid size *)

\* Math.max(width, height) and Math.min(width, height) of the image
longSide == IF width >= height THEN width ELSE height

shortSide == IF width <= height THEN width ELSE height

\* C29: every size listed in the candidates of detectGridSize is 1 or a size
\* g with 2 <= g <= max(width, height), and an edge-scored size is at most
\* 32, for uniform images as well as for non-uniform ones.
C29_CandidatesWithinImage ==
    (fn = "detectGridSize" /\ pc = "done") =>
        /\ \A k \in DOMAIN detection.candidates :
               \/ detection.candidates[k].size = 1
               \/ /\ detection.candidates[k].size >= 2
                  /\ detection.candidates[k].size <= longSide
        /\ (width > 1 /\ height > 1) =>
               LET edgeScores == edgeAwareScores(data, width, height)
               IN  \A k \in DOMAIN edgeScores :
                       /\ edgeScores[k].size >= 2
                       /\ edgeScores[k].size <= 32
                       /\ edgeScores[k].size <= longSide

\* C30: for every image with width >= 1 and height >= 1 the grid size
\* returned by detectGridSize is at most min(width, height), so that
\* logicalWidth >= 1 and logicalHeight >= 1, and therefore the snapToGrid step
\* of autoClean never raises its grid-size error: autoClean always returns.
C30_AutoCleanNeverThrows ==
    fn = "autoClean" =>
        /\ pc \in {"detected", "snapped", "counted", "done", "threw"} =>
               /\ detection.gridSize <= shortSide
               /\ detection.logicalWidth >= 1
               /\ detection.logicalHeight >= 1
        /\ pc # "threw"

-----------------------------------------------------------------------------
(* Properties of the median-cut split *)

\* the population of the first k entries
RECURSIVE cumulativeCount(_, _)
cumulativeCount(entries, k) ==
    IF k = 0 THEN 0 ELSE entries[k].count + cumulativeCount(entries, k - 1)

\* the number of entries up to and including the first one at which the
\* cumulative population reaches half of the total
medianPosition(entries) ==
    CHOOSE k \in 1..Len(entries) :
        /\ 2 * cumulativeCount(entries, k)
               >= cumulativeCount(entries, Len(entries))
        /\ \A j \in 1..(k - 1) :
               2 * cumulativeCount(entries, j)
                   < cumulativeCount(entries, Len(entries))

\* the step splits a bucket
SplitStep ==
    /\ fn = "medianCutQuantize" /\ pc = "split"
    /\ Len(buckets') = Len(buckets) + 1

\* C26: when medianCutQuantize splits a bucket of n >= 2 colours sorted along
\* its widest channel, the left part is the entries before position s where
\* s - 1 is the first index at which the cumulative population reaches at
\* least half of the bucket's total population, with s moved only as far as
\* needed to keep both parts non-empty (1 <= s <= n - 1), for every
\* distribution of counts, the buckets whose last entry alone holds more than
\* half of the population included.
C26_SplitAtWeightedMedian ==
    [][SplitStep =>
          LET bestIdx == CHOOSE i \in DOMAIN buckets : buckets'[i] # buckets[i]
              left == buckets'[bestIdx].entries
              right == buckets'[Len(buckets')].entries
              sorted == left \o right
              n == Len(sorted)
          IN  /\ n = Len(buckets[bestIdx].entries)
              /\ Len(left) = MinOf({medianPosition(sorted), n - 1})]_vars

====
